---- MODULE Spec2Model ----
(***************************************************************************)
(* A model of drm_hwcomposer: the pipeline binder                          *)
(* (drm/DrmDisplayPipeline.cpp), the hotplug dispatch of DrmHwcTwo and the *)
(* composition build of HwcDisplay.                                        *)
(***************************************************************************)
EXTENDS Integers, Sequences, FiniteSets, TLC

(***************************************************************************)
(* Bounds of the model.                                                    *)
(***************************************************************************)
NumConnectors == 2
NumEncoders == 2
NumCrtcs == 2
NumPlanes == 3
MaxPipes == 3

Connectors == 1..NumConnectors
Encoders == 1..NumEncoders
Crtcs == 1..NumCrtcs
Planes == 1..NumPlanes
PipeSlots == 1..MaxPipes

\* drm_mode.h plane types, as DrmPlane::GetType() reports them.
PlaneTypes == {"PRIMARY", "OVERLAY", "CURSOR"}

VARIABLES
  \* --- the device, as enumerated (constant after Init) ---
  connEncoders,   \* connector -> the encoders it supports (SupportsEncoder)
  encCrtcs,       \* encoder -> the crtcs it supports (SupportsCrtc)
  connCurEnc,     \* connector -> GetCurrentEncoderId(), 0 when none
  encCurCrtc,     \* encoder -> GetCurrentCrtcId(), 0 when none
  planeType,      \* plane -> GetType()
  planeCrtcs,     \* plane -> the crtcs it supports (IsCrtcSupported)
  \* --- ownership and pipelines ---
  owned,          \* object -> its owner (a connector), 0 when the weak ref is expired
  pipes,          \* slot -> a live DrmDisplayPipeline, or NoPipe
  last,           \* the last binder call and what it returned
  \* --- DrmHwcTwo: hotplug dispatch ---
  master_lock,        \* the thread holding ResourceManager::master_lock_, or NoThread
  hpc,                \* thread -> where it is
  iter,               \* thread -> the display its UpdateAllDiaplaysHotplugState is at
  delivered,          \* thread -> hotplug callbacks returned in its dispatch
  hotplug_callback_,  \* the registered (function, data): which are non-null
  displays_,          \* the registered display handles
  handler_registered, \* the uevent listener has a hotplug handler
  init_runs,          \* the runs of DrmHwcTwo::Init so far, modulo 2
  \* --- HwcDisplay: layers and composition ---
  layers_,        \* layer handle -> [type, z]: validated type and z-order
  layer_idx_,     \* the next layer handle
  handed_out,     \* the handles CreateLayer has returned, in order
  out,            \* what the last CreateComposition did, "none" once anything changed
  \* --- HwcDisplay: configurations, staged mode, presentation ---
  hwc_configs,      \* configs_.hwc_configs: the configuration ids
  active_config_id, \* configs_.active_config_id
  staged_mode,      \* the std::optional staged_mode: a mode, or NoMode
  total_stats_,     \* [total_frames_, failed_kms_present_]
  frame_no_,        \* the presented-frame number
  present,          \* the last PresentDisplay: its inputs, return value and fence
  client_layer_,    \* the client layer: its display frame
  last_set,         \* the last SetActiveConfig: its argument and return value, and
                    \* the calls made so far modulo 2
  carried,          \* the real commits since the last SetActiveConfig that succeeded:
                    \* how many succeeded (2: two or more), the mode the first of
                    \* them carried, whether a later one carried a mode, whether
                    \* one failed before the first
  \* --- HwcDisplay: client flattening ---
  flattenning_state_,        \* a ClientFlattenningState, or the vsyncs that remain
  refresh_callback_,         \* the registered (function, data): which are non-null
  flattening_vsync_enabled,  \* flattening_vsync_worker_ is armed
  countdown                  \* since the state was last armed: the countdown it was
                             \* armed at (0: not armed), the ticks, the refresh
                             \* requests sent, a handler was registered all along
VARIABLES
  \* --- ResourceManager: connectors and display numbers ---
  all_connectors,  \* the connectors of every device, in discovery order
  writeback_connectors_,  \* the writeback connectors the devices keep apart
  display_order,   \* vendor.hwc.drm.primary_display_order, split at the commas
  connectors_,     \* display number -> connector (an index of all_connectors)
  rm,              \* ResourceManager::Init: where it is, what it returned, the
                   \* primary candidates it made, what its callees gave it
  init_ret         \* what DrmHwcTwo::Init returned
VARIABLES
  \* --- DrmHwcTwo: the callback tables and the timer threads ---
  callback_lock_,   \* the timer thread holding DrmHwcTwo::callback_lock_, or NoThread
  vsync_callback_,  \* the registered (function, data): which handler, which data
  refresh_table,    \* refresh_callback_, likewise
  tpc,              \* timer thread -> where its callback is
  fetched,          \* timer thread -> the (function, data) its callback has read
  rpc               \* RegisterCallback: where it is, and what it registers
VARIABLES
  \* --- HwcDisplay: the power mode ---
  power   \* SetPowerMode: the calls made, the a_args given to
          \* ExecuteAtomicCommit, the calls of ActivateDisplayUsingDPMS, and the
          \* argument and return value of the last call
VARIABLES
  \* --- ResourceManager: the device nodes ---
  device_nodes,  \* the nodes card0, card1, ... that exist: what the kernel reports
                 \* of each and what DrmDevice::Init returns for it
  device_path,   \* vendor.hwc.drm.device: the wildcard pattern, or the index of
                 \* the one node it names
  drms_,         \* the indices of the nodes added, in the order they were added
  scan           \* the device loop of ResourceManager::Init: where it is, idx, ret

dvars == <<connEncoders, encCrtcs, connCurEnc, encCurCrtc, planeType, planeCrtcs>>
pvars == <<owned, pipes, last>>
hvars == <<master_lock, hpc, iter, delivered, hotplug_callback_, displays_,
           handler_registered, init_runs>>
cvars == <<layers_, layer_idx_, handed_out, out>>
mvars == <<hwc_configs, active_config_id, staged_mode, client_layer_, last_set, carried>>
fvars == <<total_stats_, frame_no_, present>>
tvars == <<flattenning_state_, refresh_callback_, flattening_vsync_enabled, countdown>>
rvars == <<all_connectors, writeback_connectors_, display_order, connectors_, rm,
           init_ret>>
lvars == <<callback_lock_, vsync_callback_, refresh_table, tpc, fetched, rpc>>
wvars == <<power>>
evars == <<device_nodes, device_path, drms_, scan>>
vars == <<dvars, pvars, hvars, cvars, mvars, fvars, tvars, rvars, lvars, wvars,
          evars>>

(***************************************************************************)
(* Objects that can be owned.                                              *)
(***************************************************************************)
EncObj(e) == <<"encoder", e>>
CrtcObj(k) == <<"crtc", k>>
PlaneObj(p) == <<"plane", p>>
Objects == {EncObj(e) : e \in Encoders} \cup {CrtcObj(k) : k \in Crtcs}
             \cup {PlaneObj(p) : p \in Planes}

\* A null holder.
NoHolder == <<"null", 0>>

\* An empty std::unique_ptr<DrmDisplayPipeline>.
NoPipe == [connector |-> 0, crtc |-> 0, encoder |-> 0, enc_holder |-> NoHolder,
           crtc_holder |-> NoHolder, primary_plane |-> NoHolder,
           overlay_planes |-> <<>>]

\* OwnDrmObject(obj, owner): the holder (the object itself stands for it) when the
\* object's weak `owned` reference is expired, a null holder when it is not.
OwnDrmObject(own, obj, owner) ==
  IF own[obj] = 0
    THEN [holder |-> obj, own |-> [own EXCEPT ![obj] = owner]]
    ELSE [holder |-> NoHolder, own |-> own]

\* TakeDrmObject(obj, owner): as its caller reads it ("is aleady owned" on a null
\* result), a claim that fails on an object that is owned.
TakeDrmObject(own, obj, owner) ==
  IF own[obj] = 0
    THEN [holder |-> obj, own |-> [own EXCEPT ![obj] = owner]]
    ELSE [holder |-> NoHolder, own |-> own]

\* The last reference to each holder of `holders` goes away: the objects' weak
\* references expire.
DropHolders(own, holders) ==
  [o \in Objects |-> IF o \in holders THEN 0 ELSE own[o]]

\* What a binder function returns: the pipeline (or none) and the ownership it
\* leaves behind.
Returned(pipe, own) == [pipe |-> pipe, own |-> own]

\* The plane loop without its IsCrtcSupported test.
RECURSIVE PlanesOfType_AnyCrtc(_, _, _)
PlanesOfType_AnyCrtc(crtc, type, p) ==
  IF p > NumPlanes THEN <<>>
  ELSE IF planeType[p] = type
    THEN <<p>> \o PlanesOfType_AnyCrtc(crtc, type, p + 1)
    ELSE PlanesOfType_AnyCrtc(crtc, type, p + 1)

\* dev.GetPlanes() filtered as the loop of TryCreatePipeline does, in list order.
RECURSIVE PlanesOfType(_, _, _)
PlanesOfType(crtc, type, p) ==
  IF p > NumPlanes THEN <<>>
  ELSE IF crtc \in planeCrtcs[p] /\ planeType[p] = type
    THEN <<p>> \o PlanesOfType(crtc, type, p + 1)
    ELSE PlanesOfType(crtc, type, p + 1)

\* The loop over overlay_planes taking every plane, owned or not.
RECURSIVE OwnOverlayPlanes_TakeAll(_, _, _, _)
OwnOverlayPlanes_TakeAll(own, overlay_planes, i, connector) ==
  IF i > Len(overlay_planes) THEN [holders |-> <<>>, own |-> own]
  ELSE LET pl == PlaneObj(overlay_planes[i])
           rest == OwnOverlayPlanes_TakeAll([own EXCEPT ![pl] = connector],
                                            overlay_planes, i + 1, connector)
       IN [holders |-> <<pl>> \o rest.holders, own |-> rest.own]

\* The loop over overlay_planes: own every one that is free, skip the others.
RECURSIVE OwnOverlayPlanes(_, _, _, _)
OwnOverlayPlanes(own, overlay_planes, i, connector) ==
  IF i > Len(overlay_planes) THEN [holders |-> <<>>, own |-> own]
  ELSE LET op == OwnDrmObject(own, PlaneObj(overlay_planes[i]), connector)
           rest == OwnOverlayPlanes(op.own, overlay_planes, i + 1, connector)
       IN IF op.holder # NoHolder
            THEN [holders |-> <<op.holder>> \o rest.holders, own |-> rest.own]
            ELSE rest

\* TryCreatePipeline going on with a crtc that is owned already.
TryCreatePipeline_OwnedCrtc(own, connector, enc, crtc) ==
  LET e == OwnDrmObject(own, EncObj(enc), connector) IN
  IF e.holder = NoHolder THEN Returned(NoPipe, own)
  ELSE
  LET c == OwnDrmObject(e.own, CrtcObj(crtc), connector)
      primary_planes == PlanesOfType(crtc, "PRIMARY", 1)
      overlay_planes == PlanesOfType(crtc, "OVERLAY", 1)
      undone == DropHolders(c.own, {e.holder, c.holder} \ {NoHolder})
  IN
  IF Len(primary_planes) # 1 THEN Returned(NoPipe, undone)
  ELSE
  LET pp == OwnDrmObject(c.own, PlaneObj(primary_planes[1]), connector)
      ov == OwnOverlayPlanes(pp.own, overlay_planes, 1, connector)
  IN
  Returned([connector |-> connector, crtc |-> crtc, encoder |-> enc,
            enc_holder |-> e.holder, crtc_holder |-> c.holder,
            primary_plane |-> pp.holder, overlay_planes |-> ov.holders],
           ov.own)

\* TryCreatePipeline whose rejections after the encoder and the crtc were claimed
\* leave those two claimed.
TryCreatePipeline_NoUndo(own, connector, enc, crtc) ==
  LET e == OwnDrmObject(own, EncObj(enc), connector) IN
  IF e.holder = NoHolder THEN Returned(NoPipe, own)
  ELSE
  LET c == OwnDrmObject(e.own, CrtcObj(crtc), connector) IN
  IF c.holder = NoHolder THEN Returned(NoPipe, e.own)
  ELSE
  LET primary_planes == PlanesOfType(crtc, "PRIMARY", 1)
      overlay_planes == PlanesOfType(crtc, "OVERLAY", 1)
  IN
  IF Len(primary_planes) # 1 THEN Returned(NoPipe, c.own)
  ELSE
  LET pp == TakeDrmObject(c.own, PlaneObj(primary_planes[1]), connector) IN
  IF pp.holder = NoHolder THEN Returned(NoPipe, c.own)
  ELSE
  LET ov == OwnOverlayPlanes(pp.own, overlay_planes, 1, connector) IN
  Returned([connector |-> connector, crtc |-> crtc, encoder |-> enc,
            enc_holder |-> e.holder, crtc_holder |-> c.holder,
            primary_plane |-> pp.holder, overlay_planes |-> ov.holders],
           ov.own)

\* TryCreatePipeline taking the primary plane from whoever owns it.
TryCreatePipeline_ForcedTake(own, connector, enc, crtc) ==
  LET e == OwnDrmObject(own, EncObj(enc), connector) IN
  IF e.holder = NoHolder THEN Returned(NoPipe, own)
  ELSE
  LET c == OwnDrmObject(e.own, CrtcObj(crtc), connector) IN
  IF c.holder = NoHolder THEN Returned(NoPipe, DropHolders(e.own, {e.holder}))
  ELSE
  LET primary_planes == PlanesOfType(crtc, "PRIMARY", 1)
      overlay_planes == PlanesOfType(crtc, "OVERLAY", 1)
      undone == DropHolders(c.own, {e.holder, c.holder})
  IN
  IF Len(primary_planes) # 1 THEN Returned(NoPipe, undone)
  ELSE
  LET pl == PlaneObj(primary_planes[1])
      ov == OwnOverlayPlanes([c.own EXCEPT ![pl] = connector], overlay_planes, 1,
                             connector)
  IN
  Returned([connector |-> connector, crtc |-> crtc, encoder |-> enc,
            enc_holder |-> e.holder, crtc_holder |-> c.holder,
            primary_plane |-> pl, overlay_planes |-> ov.holders],
           ov.own)

TryCreatePipeline(own, connector, enc, crtc) ==
  LET e == OwnDrmObject(own, EncObj(enc), connector) IN
  IF e.holder = NoHolder THEN Returned(NoPipe, own)
  ELSE
  LET c == OwnDrmObject(e.own, CrtcObj(crtc), connector) IN
  \* enc_holder goes out of scope on this return
  IF c.holder = NoHolder THEN Returned(NoPipe, DropHolders(e.own, {e.holder}))
  ELSE
  LET primary_planes == PlanesOfType(crtc, "PRIMARY", 1)
      overlay_planes == PlanesOfType(crtc, "OVERLAY", 1)
      \* enc_holder and crtc_holder go out of scope on the returns below
      undone == DropHolders(c.own, {e.holder, c.holder})
  IN
  IF Len(primary_planes) = 0 THEN Returned(NoPipe, undone)
  ELSE IF Len(primary_planes) > 1 THEN Returned(NoPipe, undone)
  ELSE
  LET pp == TakeDrmObject(c.own, PlaneObj(primary_planes[1]), connector) IN
  IF pp.holder = NoHolder THEN Returned(NoPipe, undone)
  ELSE
  LET ov == OwnOverlayPlanes(pp.own, overlay_planes, 1, connector) IN
  Returned([connector |-> connector, crtc |-> crtc, encoder |-> enc,
            enc_holder |-> e.holder, crtc_holder |-> c.holder,
            primary_plane |-> pp.holder, overlay_planes |-> ov.holders],
           ov.own)

\* The crtc loop giving up at the first crtc that does not work.
TryCrtcsFrom_FirstOnly(own, conn, enc, k) ==
  LET ks == {j \in k..NumCrtcs : j \in encCrtcs[enc]} IN
  IF ks = {} THEN Returned(NoPipe, own)
  ELSE TryCreatePipeline(own, conn, enc, CHOOSE j \in ks : \A i \in ks : j <= i)

\* The loop over dev.GetCrtcs() of TryCreatePipelineUsingEncoder.
RECURSIVE TryCrtcsFrom(_, _, _, _)
TryCrtcsFrom(own, conn, enc, k) ==
  IF k > NumCrtcs THEN Returned(NoPipe, own)
  ELSE IF k \in encCrtcs[enc]
    THEN LET r == TryCreatePipeline(own, conn, enc, k)
         IN IF r.pipe # NoPipe THEN r ELSE TryCrtcsFrom(r.own, conn, enc, k + 1)
    ELSE TryCrtcsFrom(own, conn, enc, k + 1)

\* dev.FindCrtcById / dev.FindEncoderById: the object of that id, 0 for nullptr.
FindCrtcById(id) == IF id \in Crtcs THEN id ELSE 0
FindEncoderById(id) == IF id \in Encoders THEN id ELSE 0

TryCreatePipelineUsingEncoder(own, conn, enc) ==
  LET crtc == FindCrtcById(encCurCrtc[enc])
      first == IF crtc # 0 THEN TryCreatePipeline(own, conn, enc, crtc)
               ELSE Returned(NoPipe, own)
  IN IF first.pipe # NoPipe THEN first
     ELSE TryCrtcsFrom(first.own, conn, enc, 1)

\* The loop over dev.GetEncoders() of CreatePipeline.
RECURSIVE TryEncodersFrom(_, _, _)
TryEncodersFrom(own, connector, e) ==
  IF e > NumEncoders THEN Returned(NoPipe, own)
  ELSE IF e \in connEncoders[connector]
    THEN LET r == TryCreatePipelineUsingEncoder(own, connector, e)
         IN IF r.pipe # NoPipe THEN r ELSE TryEncodersFrom(r.own, connector, e + 1)
    ELSE TryEncodersFrom(own, connector, e + 1)

\* CreatePipeline without the try of the current setup.
CreatePipeline_NoCurrent(own, connector) == TryEncodersFrom(own, connector, 1)

CreatePipeline(own, connector) ==
  LET encoder == FindEncoderById(connCurEnc[connector])
      first == IF encoder # 0
                 THEN TryCreatePipelineUsingEncoder(own, connector, encoder)
                 ELSE Returned(NoPipe, own)
  IN IF first.pipe # NoPipe THEN first
     ELSE TryEncodersFrom(first.own, connector, 1)

\* The holders a pipeline keeps alive.
Holders(pipe) ==
  ({pipe.enc_holder, pipe.crtc_holder, pipe.primary_plane}
     \cup {pipe.overlay_planes[i] : i \in 1..Len(pipe.overlay_planes)})
  \ {NoHolder}

\* The objects a pipeline drives.
Resources(pipe) ==
  {EncObj(pipe.encoder), CrtcObj(pipe.crtc)} \cup (Holders(pipe) \ {NoHolder})

LivePipes == {s \in PipeSlots : pipes[s] # NoPipe}

(***************************************************************************)
(* The device as enumerated.  Either the routing (the encoders a connector  *)
(* supports and the crtcs an encoder supports, at least one each, and the  *)
(* current bindings, which need not be among them) is arbitrary over one   *)
(* of the plane layouts below, or the planes are arbitrary over the full   *)
(* routing.                                                                *)
(***************************************************************************)
\* one primary plane per crtc, the remaining planes overlays of every crtc
DedicatedLayout ==
  [type |-> [p \in Planes |-> IF p <= NumCrtcs THEN "PRIMARY" ELSE "OVERLAY"],
   crtcs |-> [p \in Planes |-> IF p <= NumCrtcs THEN {p} ELSE Crtcs]]
\* one primary plane shared by every crtc, the remaining planes overlays
SharedLayout ==
  [type |-> [p \in Planes |-> IF p = 1 THEN "PRIMARY" ELSE "OVERLAY"],
   crtcs |-> [p \in Planes |-> Crtcs]]
PlaneLayouts == {DedicatedLayout, SharedLayout}

AnyRouting ==
  /\ connEncoders \in [Connectors -> SUBSET Encoders \ {{}}]
  /\ encCrtcs \in [Encoders -> SUBSET Crtcs \ {{}}]
  /\ connCurEnc \in [Connectors -> 0..NumEncoders]
  /\ encCurCrtc \in [Encoders -> 0..NumCrtcs]
  /\ \E l \in PlaneLayouts : planeType = l.type /\ planeCrtcs = l.crtcs

AnyPlanes ==
  /\ connEncoders = [c \in Connectors |-> Encoders]
  /\ encCrtcs = [e \in Encoders |-> Crtcs]
  /\ connCurEnc = [c \in Connectors |-> 0]
  /\ encCurCrtc = [e \in Encoders |-> 0]
  /\ planeType \in [Planes -> PlaneTypes]
  /\ planeCrtcs \in [Planes -> SUBSET Crtcs]

InitDevice == AnyRouting \/ AnyPlanes

InitPipes ==
  /\ owned = [o \in Objects |-> 0]
  /\ pipes = [s \in PipeSlots |-> NoPipe]
  /\ last = [op |-> "none", conn |-> 0, pipe |-> NoPipe, rebind |-> FALSE]

(***************************************************************************)
(* The binder's callers.                                                   *)
(***************************************************************************)
\* A caller binds a connector and keeps the pipeline it gets.
BindPipeline(c) ==
  /\ \E s \in PipeSlots : pipes[s] = NoPipe
  /\ LET r == CreatePipeline(owned, c)
         s == CHOOSE t \in PipeSlots :
                pipes[t] = NoPipe /\ \A u \in PipeSlots : pipes[u] = NoPipe => t <= u
     IN /\ owned' = r.own
        /\ pipes' = IF r.pipe # NoPipe THEN [pipes EXCEPT ![s] = r.pipe] ELSE pipes
        /\ last' = [op |-> "create", conn |-> c, pipe |-> r.pipe,
                    rebind |-> last.op = "destroy" /\ last.conn = c]
  /\ UNCHANGED dvars

\* A destruction that keeps the overlay planes' holders alive.
DestroyPipeline_KeepOverlays(s) ==
  /\ pipes[s] # NoPipe
  /\ owned' = DropHolders(owned, {pipes[s].enc_holder, pipes[s].crtc_holder,
                                  pipes[s].primary_plane})
  /\ pipes' = [pipes EXCEPT ![s] = NoPipe]
  /\ last' = [op |-> "destroy", conn |-> pipes[s].connector, pipe |-> pipes[s],
              rebind |-> FALSE]
  /\ UNCHANGED dvars

\* The pipeline struct is destroyed: its holders go with it.
DestroyPipeline(s) ==
  /\ pipes[s] # NoPipe
  /\ owned' = DropHolders(owned, Holders(pipes[s]))
  /\ pipes' = [pipes EXCEPT ![s] = NoPipe]
  /\ last' = [op |-> "destroy", conn |-> pipes[s].connector, pipe |-> pipes[s],
              rebind |-> FALSE]
  /\ UNCHANGED dvars

NextPipes ==
  \/ \E c \in Connectors : BindPipeline(c)
  \/ \E s \in PipeSlots : DestroyPipeline(s)

(***************************************************************************)
(* DrmHwcTwo: the hotplug dispatch and the master lock.                    *)
(***************************************************************************)
NumClients == 1
MaxDisplays == 2

\* The uevent listener's thread and the consumer's calling threads.
UEventThread == <<"uevent", 0>>
ClientThreads == {<<"client", i>> : i \in 1..NumClients}
Threads == {UEventThread} \cup ClientThreads
NoThread == <<"none", 0>>

InitHotplug ==
  /\ master_lock = NoThread
  /\ hpc = [t \in Threads |-> "idle"]
  /\ iter = [t \in Threads |-> 0]
  /\ delivered = [t \in Threads |-> 0]
  /\ hotplug_callback_ = [first |-> FALSE, second |-> FALSE]
  /\ displays_ = {}
  /\ handler_registered = FALSE
  /\ init_runs = 0

\* The device hook a consumer call enters through: it takes the master lock for
\* the length of the call.
DeviceHookLock(t) ==
  /\ t \in ClientThreads
  /\ hpc[t] = "idle"
  /\ master_lock = NoThread
  /\ master_lock' = t
  /\ hpc' = [hpc EXCEPT ![t] = "hooked"]
  /\ UNCHANGED <<iter, delivered, hotplug_callback_, displays_, handler_registered, init_runs>>

DeviceHookUnlock(t) ==
  /\ t \in ClientThreads
  /\ hpc[t] = "update"
  /\ iter[t] \notin displays_
  /\ master_lock' = NoThread
  /\ hpc' = [hpc EXCEPT ![t] = "idle"]
  /\ iter' = [iter EXCEPT ![t] = 0]
  /\ delivered' = [delivered EXCEPT ![t] = 0]
  /\ UNCHANGED <<hotplug_callback_, displays_, handler_registered, init_runs>>

\* DrmHwcTwo::Init, run by RegisterCallback while no display is registered:
\* the resource manager fails (err), or leaves n connectors to register.
DrmHwcTwoInit(err, n) ==
  /\ init_runs' = 1 - init_runs
  /\ IF err THEN UNCHANGED <<displays_, handler_registered>>
     ELSE /\ displays_' = 1..n
          /\ handler_registered' = TRUE

\* RegisterCallback for the hotplug callback without its test of displays_: Init
\* runs at every registration.
RegisterCallback_AlwaysInit(t, function, data) ==
  /\ hpc[t] = "hooked"
  /\ hotplug_callback_' = [first |-> function, second |-> data]
  /\ \E err \in BOOLEAN : \E n \in 0..MaxDisplays : DrmHwcTwoInit(err, n)
  /\ hpc' = [hpc EXCEPT ![t] = "update"]
  /\ iter' = [iter EXCEPT ![t] = 1]
  /\ UNCHANGED <<master_lock, delivered>>

\* RegisterCallback(HWC2::Callback::Hotplug, data, function) up to the loop of
\* UpdateAllDiaplaysHotplugState(true).
RegisterCallback(t, function, data) ==
  /\ hpc[t] = "hooked"
  /\ hotplug_callback_' = [first |-> function, second |-> data]
  /\ IF displays_ = {}
       THEN \E err \in BOOLEAN : \E n \in 0..MaxDisplays : DrmHwcTwoInit(err, n)
       ELSE UNCHANGED <<displays_, handler_registered, init_runs>>
  /\ hpc' = [hpc EXCEPT ![t] = "update"]
  /\ iter' = [iter EXCEPT ![t] = 1]
  /\ UNCHANGED <<master_lock, delivered>>

\* The handler Init registers with the uevent listener: lock_guard on the master
\* lock, then UpdateAllDiaplaysHotplugState().
HotplugHandlerLock ==
  /\ handler_registered
  /\ hpc[UEventThread] = "idle"
  /\ master_lock = NoThread
  /\ master_lock' = UEventThread
  /\ hpc' = [hpc EXCEPT ![UEventThread] = "update"]
  /\ iter' = [iter EXCEPT ![UEventThread] = 1]
  /\ UNCHANGED <<delivered, hotplug_callback_, displays_, handler_registered, init_runs>>

\* The handler returns: its lock_guard unlocks.
HotplugHandlerUnlock ==
  /\ hpc[UEventThread] = "update"
  /\ iter[UEventThread] \notin displays_
  /\ master_lock' = NoThread
  /\ hpc' = [hpc EXCEPT ![UEventThread] = "idle"]
  /\ iter' = [iter EXCEPT ![UEventThread] = 0]
  /\ delivered' = [delivered EXCEPT ![UEventThread] = 0]
  /\ UNCHANGED <<hotplug_callback_, displays_, handler_registered, init_runs>>

\* HandleHotplug of the display the loop is at finds nothing to report.
HandleHotplugQuiet(t) ==
  /\ hpc[t] = "update"
  /\ iter[t] \in displays_
  /\ iter' = [iter EXCEPT ![t] = iter[t] + 1]
  /\ UNCHANGED <<master_lock, hpc, delivered, hotplug_callback_, displays_,
                 handler_registered, init_runs>>

\* SendHotplugEventToClient without its unlock: the callback is called with the
\* master lock held.
SendHotplugEventToClient_Call_Locked(t) ==
  /\ hpc[t] = "update"
  /\ iter[t] \in displays_
  /\ IF hotplug_callback_.first /\ hotplug_callback_.second
       THEN /\ hpc' = [hpc EXCEPT ![t] = "in_callback"]
            /\ UNCHANGED <<master_lock, iter>>
       ELSE /\ iter' = [iter EXCEPT ![t] = iter[t] + 1]
            /\ UNCHANGED <<master_lock, hpc>>
  /\ UNCHANGED <<delivered, hotplug_callback_, displays_, handler_registered, init_runs>>

\* HandleHotplug reports the display: SendHotplugEventToClient, to the call of
\* the consumer's callback.
SendHotplugEventToClient_Call(t) ==
  /\ hpc[t] = "update"
  /\ iter[t] \in displays_
  /\ IF hotplug_callback_.first /\ hotplug_callback_.second
       THEN /\ master_lock' = NoThread
            /\ hpc' = [hpc EXCEPT ![t] = "in_callback"]
            /\ UNCHANGED iter
       ELSE /\ iter' = [iter EXCEPT ![t] = iter[t] + 1]
            /\ UNCHANGED <<master_lock, hpc>>
  /\ UNCHANGED <<delivered, hotplug_callback_, displays_, handler_registered, init_runs>>

\* Inside its callback the consumer calls back into the API: the call's device
\* hook will take the master lock.
CallbackReenters(t) ==
  /\ hpc[t] = "in_callback"
  /\ hpc' = [hpc EXCEPT ![t] = "reentering"]
  /\ UNCHANGED <<master_lock, iter, delivered, hotplug_callback_, displays_,
                 handler_registered, init_runs>>

\* The re-entrant call's device hook takes the master lock.
ReentrantHookLock(t) ==
  /\ hpc[t] = "reentering"
  /\ master_lock = NoThread
  /\ master_lock' = t
  /\ hpc' = [hpc EXCEPT ![t] = "reentered"]
  /\ UNCHANGED <<iter, delivered, hotplug_callback_, displays_, handler_registered,
                 init_runs>>

\* The re-entrant call returns into the callback: its hook unlocks.
ReentrantHookUnlock(t) ==
  /\ hpc[t] = "reentered"
  /\ master_lock' = NoThread
  /\ hpc' = [hpc EXCEPT ![t] = "called_back"]
  /\ UNCHANGED <<iter, delivered, hotplug_callback_, displays_, handler_registered,
                 init_runs>>

\* The consumer's callback returns.
HotplugCallbackReturns(t) ==
  /\ hpc[t] \in {"in_callback", "called_back"}
  /\ hpc' = [hpc EXCEPT ![t] = "relock"]
  /\ UNCHANGED <<master_lock, iter, delivered, hotplug_callback_, displays_,
                 handler_registered, init_runs>>

\* SendHotplugEventToClient without its lock() after the callback.
SendHotplugEventToClient_Lock_Left(t) ==
  /\ hpc[t] = "relock"
  /\ hpc' = [hpc EXCEPT ![t] = "update"]
  /\ iter' = [iter EXCEPT ![t] = iter[t] + 1]
  /\ delivered' = [delivered EXCEPT ![t] = delivered[t] + 1]
  /\ UNCHANGED <<master_lock, hotplug_callback_, displays_, handler_registered, init_runs>>

\* SendHotplugEventToClient, from the callback's return: lock again, then the
\* loop goes on.
SendHotplugEventToClient_Lock(t) ==
  /\ hpc[t] = "relock"
  /\ master_lock = NoThread
  /\ master_lock' = t
  /\ hpc' = [hpc EXCEPT ![t] = "update"]
  /\ iter' = [iter EXCEPT ![t] = iter[t] + 1]
  /\ delivered' = [delivered EXCEPT ![t] = delivered[t] + 1]
  /\ UNCHANGED <<hotplug_callback_, displays_, handler_registered, init_runs>>

NextHotplug ==
  \/ \E t \in ClientThreads : DeviceHookLock(t)
  \/ \E t \in ClientThreads : \E f \in BOOLEAN : \E d \in BOOLEAN :
       RegisterCallback(t, f, d)
  \/ \E t \in ClientThreads : DeviceHookUnlock(t)
  \/ HotplugHandlerLock
  \/ HotplugHandlerUnlock
  \/ \E t \in Threads : HandleHotplugQuiet(t)
  \/ \E t \in Threads : SendHotplugEventToClient_Call(t)
  \/ \E t \in Threads : CallbackReenters(t)
  \/ \E t \in Threads : ReentrantHookLock(t)
  \/ \E t \in Threads : ReentrantHookUnlock(t)
  \/ \E t \in Threads : HotplugCallbackReturns(t)
  \/ \E t \in Threads : SendHotplugEventToClient_Lock(t)

(***************************************************************************)
(* HwcDisplay: the layers and the composition build.                       *)
(***************************************************************************)
MaxLayers == 2
MaxZ == 1

\* uint32_t z-orders are cut down to 0..MaxZ; UINT32_MAX is the greatest of them.
UINT32_MAX == MaxZ

\* HWC2::Composition, as far as CreateComposition tells the types apart.
CompositionTypes == {"Invalid", "Client", "Device", "SolidColor"}

\* The entries of z_map: a layer of layers_, or client_layer_.
LayerRef(h) == <<"layer", h>>
ClientLayerRef == <<"client_layer_", 0>>

\* staged_mode when it holds no value, and the mode of a configuration.
NoMode == <<"nullopt", 0>>
ModeOf(conf) == <<"mode", conf>>

\* The display frame of a layer nobody has set, and the frame {0, 0, h_display,
\* v_display} of a mode.
NoFrame == <<"frame", 0>>
FrameOf(mode) == <<"frame", mode[2]>>

NoOut == [ret |-> "none", test_only |-> FALSE, z_map |-> <<>>, imported |-> 0,
          committed |-> FALSE, display_mode |-> NoMode, staged_mode |-> NoMode]

InitDisplay ==
  /\ layers_ = <<>>
  /\ layer_idx_ = 0
  /\ handed_out = <<>>
  /\ out = NoOut

MinOf(a, b) == IF a < b THEN a ELSE b

\* An emplace that keeps equal keys side by side, as a std::multimap would.
Emplace_Multi(z_map, z, ref) ==
  LET before == SelectSeq(z_map, LAMBDA x : x.z <= z)
      after == SelectSeq(z_map, LAMBDA x : x.z > z)
  IN before \o <<[z |-> z, ref |-> ref]>> \o after

\* std::map::emplace: the entry goes in unless the key is there already.  The map
\* is kept as the sequence of its entries in key order.
Emplace(z_map, z, ref) ==
  IF \E i \in 1..Len(z_map) : z_map[i].z = z THEN z_map
  ELSE LET before == SelectSeq(z_map, LAMBDA x : x.z < z)
           after == SelectSeq(z_map, LAMBDA x : x.z > z)
       IN before \o <<[z |-> z, ref |-> ref]>> \o after

\* The first loop of CreateComposition, over layers_ in handle order from h on.
RECURSIVE OrderLayers(_, _)
OrderLayers(acc, h) ==
  IF h >= layer_idx_ THEN acc
  ELSE IF h \notin DOMAIN layers_ THEN OrderLayers(acc, h + 1)
  ELSE IF layers_[h].type = "Device"
    THEN OrderLayers([acc EXCEPT !.z_map = Emplace(acc.z_map, layers_[h].z, LayerRef(h))],
                     h + 1)
  ELSE IF layers_[h].type = "Client"
    THEN OrderLayers([acc EXCEPT !.use_client_layer = TRUE,
                                 !.client_z_order = MinOf(acc.client_z_order, layers_[h].z)],
                     h + 1)
  ELSE OrderLayers(acc, h + 1)

\* The end of CreateComposition without the reset.
StagedModeAfterCommit_NeverReset(test_only) == staged_mode

\* The end of CreateComposition with the reset done for a test commit as well.
StagedModeAfterCommit_AlwaysReset(test_only) == NoMode

\* The end of CreateComposition, the commit done: staged_mode.reset() unless the
\* commit was a test.
StagedModeAfterCommit(test_only) == IF ~test_only THEN NoMode ELSE staged_mode

\* CreateComposition without its test for an empty z_map.
CreateComposition_NoEmptyTest(test_only, import_fails_at, set_layers_ret, plan_ret, commit_ret) ==
  LET o == OrderLayers([use_client_layer |-> FALSE, client_z_order |-> UINT32_MAX,
                        z_map |-> <<>>], 0)
      z_map == IF o.use_client_layer
                 THEN Emplace(o.z_map, o.client_z_order, ClientLayerRef)
                 ELSE o.z_map
      res == [ret |-> "None", test_only |-> test_only, z_map |-> z_map,
              imported |-> Len(z_map), committed |-> FALSE,
              display_mode |-> NoMode, staged_mode |-> staged_mode]
  IN IF import_fails_at \in 1..Len(z_map)
       THEN [res EXCEPT !.ret = "NoResources", !.imported = import_fails_at]
     ELSE IF set_layers_ret # 0 THEN [res EXCEPT !.ret = "BadLayer"]
     ELSE IF plan_ret # 0 THEN [res EXCEPT !.ret = "BadConfig"]
     ELSE IF commit_ret # 0
       THEN [res EXCEPT !.ret = "BadParameter", !.committed = TRUE,
                        !.display_mode = staged_mode]
     ELSE [res EXCEPT !.committed = TRUE, !.display_mode = staged_mode,
                      !.staged_mode = StagedModeAfterCommit(test_only)]

\* CreateComposition that leaves out a layer whose import failed and goes on with
\* the others.
CreateComposition_SkipFailedImport(test_only, import_fails_at, set_layers_ret, plan_ret, commit_ret) ==
  LET o == OrderLayers([use_client_layer |-> FALSE, client_z_order |-> UINT32_MAX,
                        z_map |-> <<>>], 0)
      z_map == IF o.use_client_layer
                 THEN Emplace(o.z_map, o.client_z_order, ClientLayerRef)
                 ELSE o.z_map
      res == [ret |-> "None", test_only |-> test_only, z_map |-> z_map,
              imported |-> Len(z_map), committed |-> FALSE,
              display_mode |-> NoMode, staged_mode |-> staged_mode]
  IN IF Len(z_map) = 0 THEN [res EXCEPT !.ret = "BadLayer"]
     ELSE IF set_layers_ret # 0 THEN [res EXCEPT !.ret = "BadLayer"]
     ELSE IF plan_ret # 0 THEN [res EXCEPT !.ret = "BadConfig"]
     ELSE IF commit_ret # 0
       THEN [res EXCEPT !.ret = "BadParameter", !.committed = TRUE,
                        !.display_mode = staged_mode]
     ELSE [res EXCEPT !.committed = TRUE, !.display_mode = staged_mode,
                      !.staged_mode = StagedModeAfterCommit(test_only)]

\* HwcDisplay::CreateComposition.  import_fails_at is the place in z order of the
\* first layer whose ImportBuffer fails (0: none does); the other arguments are
\* what SetLayers, Plan and ExecuteAtomicCommit return.  `committed` says that
\* ExecuteAtomicCommit was called with the composition of z_map, `display_mode` is
\* the mode a_args carried into it, `staged_mode` is staged_mode at the return.
CreateComposition(test_only, import_fails_at, set_layers_ret, plan_ret, commit_ret) ==
  LET o == OrderLayers([use_client_layer |-> FALSE, client_z_order |-> UINT32_MAX,
                        z_map |-> <<>>], 0)
      z_map == IF o.use_client_layer
                 THEN Emplace(o.z_map, o.client_z_order, ClientLayerRef)
                 ELSE o.z_map
      res == [ret |-> "None", test_only |-> test_only, z_map |-> z_map,
              imported |-> Len(z_map), committed |-> FALSE,
              display_mode |-> NoMode, staged_mode |-> staged_mode]
  IN IF Len(z_map) = 0 THEN [res EXCEPT !.ret = "BadLayer"]
     ELSE IF import_fails_at \in 1..Len(z_map)
       THEN [res EXCEPT !.ret = "NoResources", !.imported = import_fails_at]
     ELSE IF set_layers_ret # 0 THEN [res EXCEPT !.ret = "BadLayer"]
     ELSE IF plan_ret # 0 THEN [res EXCEPT !.ret = "BadConfig"]
     ELSE IF commit_ret # 0
       THEN [res EXCEPT !.ret = "BadParameter", !.committed = TRUE,
                        !.display_mode = staged_mode]
     ELSE [res EXCEPT !.committed = TRUE, !.display_mode = staged_mode,
                      !.staged_mode = StagedModeAfterCommit(test_only)]

\* CreateLayer with the least handle that no layer has, in place of layer_idx_.
CreateLayer_LeastFree ==
  /\ layer_idx_ < MaxLayers
  /\ LET h == CHOOSE g \in 0..MaxLayers :
                /\ g \notin DOMAIN layers_
                /\ \A f \in 0..(g - 1) : f \in DOMAIN layers_
     IN /\ layers_' = [g \in DOMAIN layers_ \cup {h} |->
                         IF g = h THEN [type |-> "Invalid", z |-> 0] ELSE layers_[g]]
        /\ handed_out' = Append(handed_out, h)
  /\ layer_idx_' = layer_idx_ + 1
  /\ out' = NoOut

\* HwcDisplay::CreateLayer: a default HwcLayer under the next handle.
CreateLayer ==
  /\ layer_idx_ < MaxLayers
  /\ layers_' = [h \in DOMAIN layers_ \cup {layer_idx_} |->
                  IF h = layer_idx_ THEN [type |-> "Invalid", z |-> 0] ELSE layers_[h]]
  /\ handed_out' = Append(handed_out, layer_idx_)
  /\ layer_idx_' = layer_idx_ + 1
  /\ out' = NoOut

\* HwcDisplay::DestroyLayer of a layer that exists.
DestroyLayer(h) ==
  /\ h \in DOMAIN layers_
  /\ layers_' = [g \in DOMAIN layers_ \ {h} |-> layers_[g]]
  /\ out' = NoOut
  /\ UNCHANGED <<layer_idx_, handed_out>>

\* The consumer sets a layer's z-order.
SetLayerZOrder(h, z) ==
  /\ h \in DOMAIN layers_
  /\ layers_' = [layers_ EXCEPT ![h].z = z]
  /\ out' = NoOut
  /\ UNCHANGED <<layer_idx_, handed_out>>

\* HwcDisplay::ValidateDisplay: the backend decides every layer's validated type.
ValidateDisplay(types) ==
  /\ layers_' = [h \in DOMAIN layers_ |-> [layers_[h] EXCEPT !.type = types[h]]]
  /\ out' = NoOut
  /\ UNCHANGED <<layer_idx_, handed_out>>

NoCarried == [n |-> 0, first |-> NoMode, later |-> FALSE, failed_first |-> FALSE]

\* The real commits since the last SetActiveConfig, the commit of r included.
Carried(r) ==
  IF r.test_only \/ ~r.committed THEN carried
  ELSE IF r.ret # "None"
    THEN [carried EXCEPT !.failed_first = carried.failed_first \/ carried.n = 0]
  ELSE IF carried.n = 0 THEN [carried EXCEPT !.n = 1, !.first = r.display_mode]
  ELSE [carried EXCEPT !.n = 2, !.later = carried.later \/ r.display_mode # NoMode]

\* CreateComposition is called and returns r.
Composed(r) ==
  /\ out' = r
  /\ staged_mode' = r.staged_mode
  /\ carried' = Carried(r)
  /\ UNCHANGED <<layers_, layer_idx_, handed_out, hwc_configs, active_config_id,
                 client_layer_, last_set>>

\* A caller of CreateComposition (PresentDisplay, or the backend's test commit).
Compose(test_only, import_fails_at, set_layers_ret, plan_ret, commit_ret) ==
  Composed(CreateComposition(test_only, import_fails_at, set_layers_ret, plan_ret,
                             commit_ret))

NextDisplay ==
  \/ CreateLayer /\ UNCHANGED mvars
  \/ \E h \in DOMAIN layers_ : DestroyLayer(h) /\ UNCHANGED mvars
  \/ \E h \in DOMAIN layers_ : \E z \in 0..MaxZ : SetLayerZOrder(h, z) /\ UNCHANGED mvars
  \/ \E types \in [DOMAIN layers_ -> CompositionTypes] :
       ValidateDisplay(types) /\ UNCHANGED mvars
  \/ \E test_only \in BOOLEAN : \E import_fails_at \in 0..MaxLayers :
       \E set_layers_ret \in {0, -1} : \E plan_ret \in {0, -1} :
         \E commit_ret \in {0, -1} :
           Compose(test_only, import_fails_at, set_layers_ret, plan_ret, commit_ret)

(***************************************************************************)
(* HwcDisplay: configurations, the staged mode and PresentDisplay.         *)
(***************************************************************************)
NumConfigs == 2
MaxFrames == 2

ConfigIds == 1..NumConfigs

NoPresent == [ret |-> "none", present_fence |-> "unwritten", composition |-> "none",
              inputs_ok |-> FALSE, previous |-> "none"]

InitConfig ==
  /\ hwc_configs = {}
  /\ active_config_id = 0
  /\ staged_mode = NoMode
  /\ client_layer_ = [display_frame |-> NoFrame]
  /\ last_set = [config |-> 0, ret |-> "none", in_set |-> FALSE, intact |-> FALSE,
                 calls |-> 0]
  /\ carried = NoCarried

InitPresent ==
  /\ total_stats_ = [total_frames_ |-> 0, failed_kms_present_ |-> 0]
  /\ frame_no_ = 0
  /\ present = NoPresent

\* HwcDisplay::GetActiveConfig: the return value and *config.
GetActiveConfig ==
  IF active_config_id \notin hwc_configs
    THEN [ret |-> "BadConfig", config |-> 0]
    ELSE [ret |-> "None", config |-> active_config_id]

\* SetActiveConfig that stages the mode and leaves the active id as it was.
SetActiveConfigIn_KeepId(configs, config) ==
  IF config \notin configs
    THEN [ret |-> "BadConfig", staged_mode |-> staged_mode,
          active_config_id |-> active_config_id,
          display_frame |-> client_layer_.display_frame]
    ELSE [ret |-> "None", staged_mode |-> ModeOf(config),
          active_config_id |-> active_config_id,
          display_frame |-> FrameOf(ModeOf(config))]

\* SetActiveConfig that looks its argument up with operator[] before it tests it:
\* an unknown id gets a default mode, which is staged with the id.
SetActiveConfigIn_StageFirst(configs, config) ==
  IF config \notin configs
    THEN [ret |-> "BadConfig", staged_mode |-> ModeOf(config),
          active_config_id |-> config,
          display_frame |-> FrameOf(ModeOf(config))]
    ELSE [ret |-> "None", staged_mode |-> ModeOf(config),
          active_config_id |-> config,
          display_frame |-> FrameOf(ModeOf(config))]

\* HwcDisplay::SetActiveConfig(config) with configs_.hwc_configs = configs: the
\* return value, and staged_mode, configs_.active_config_id and the client
\* layer's display frame at the return.
SetActiveConfigIn(configs, config) ==
  IF config \notin configs
    THEN [ret |-> "BadConfig", staged_mode |-> staged_mode,
          active_config_id |-> active_config_id,
          display_frame |-> client_layer_.display_frame]
    ELSE [ret |-> "None", staged_mode |-> ModeOf(config),
          active_config_id |-> config,
          display_frame |-> FrameOf(ModeOf(config))]

\* SetActiveConfig(config) ends with r; in_set: config was a configuration id.
\* `intact` holds until configs_.Update runs again.
Restaged(r, config, in_set) ==
  /\ staged_mode' = r.staged_mode
  /\ active_config_id' = r.active_config_id
  /\ client_layer_' = [display_frame |-> r.display_frame]
  /\ last_set' = [config |-> config, ret |-> r.ret, in_set |-> in_set, intact |-> TRUE,
                  calls |-> 1 - last_set.calls]
  /\ carried' = IF r.ret = "None" THEN NoCarried ELSE carried

\* The consumer calls SetActiveConfig(config).
SetActiveConfig(config) ==
  /\ Restaged(SetActiveConfigIn(hwc_configs, config), config, config \in hwc_configs)
  /\ out' = NoOut
  /\ UNCHANGED <<layers_, layer_idx_, handed_out, hwc_configs>>

\* HwcDisplay::ChosePreferredConfig: configs_.Update reads the connector's modes,
\* which fails (err) or leaves the configurations `configs`, one of them the
\* preferred one; then SetActiveConfig(preferred_config_id).
ChosePreferredConfig(err, configs, preferred_config_id) ==
  /\ hwc_configs = {}
  /\ preferred_config_id \in configs
  /\ IF err
       THEN UNCHANGED <<hwc_configs, staged_mode, active_config_id, client_layer_,
                        last_set, carried>>
       ELSE /\ hwc_configs' = configs
            /\ Restaged(SetActiveConfigIn(configs, preferred_config_id),
                        preferred_config_id, TRUE)
  /\ out' = NoOut
  /\ UNCHANGED <<layers_, layer_idx_, handed_out>>

\* HwcDisplay::GetDisplayConfigs(num_configs, nullptr): configs_.Update reads the
\* connector's modes again.
GetDisplayConfigs(configs) ==
  /\ hwc_configs # {}
  /\ hwc_configs' = configs
  /\ last_set' = [last_set EXCEPT !.intact = FALSE]
  /\ out' = NoOut
  /\ UNCHANGED <<layers_, layer_idx_, handed_out, active_config_id, staged_mode,
                 client_layer_, carried>>

\* The operations on the configurations and the staged mode, with CreateLayer and
\* ValidateDisplay to give CreateComposition its layers.
NextConfig ==
  \/ CreateLayer /\ UNCHANGED mvars
  \/ \E types \in [DOMAIN layers_ -> CompositionTypes] :
       ValidateDisplay(types) /\ UNCHANGED mvars
  \/ \E config \in 0..NumConfigs : SetActiveConfig(config)
  \/ \E err \in BOOLEAN : \E configs \in SUBSET ConfigIds : \E preferred \in ConfigIds :
       ChosePreferredConfig(err, configs, preferred)
  \/ \E configs \in SUBSET ConfigIds \ {{}} : GetDisplayConfigs(configs)
  \/ \E test_only \in BOOLEAN : \E import_fails_at \in 0..MaxLayers :
       \E set_layers_ret \in {0, -1} : \E plan_ret \in {0, -1} :
         \E commit_ret \in {0, -1} :
           Compose(test_only, import_fails_at, set_layers_ret, plan_ret, commit_ret)

\* CreateComposition over layers of any z-order, with the mode ChosePreferredConfig
\* stages.
NextCompose ==
  \/ CreateLayer /\ UNCHANGED mvars
  \/ \E h \in DOMAIN layers_ : \E z \in 0..MaxZ : SetLayerZOrder(h, z) /\ UNCHANGED mvars
  \/ \E types \in [DOMAIN layers_ -> CompositionTypes] :
       ValidateDisplay(types) /\ UNCHANGED mvars
  \/ \E err \in BOOLEAN : \E configs \in SUBSET ConfigIds : \E preferred \in ConfigIds :
       ChosePreferredConfig(err, configs, preferred)
  \/ \E test_only \in BOOLEAN : \E import_fails_at \in 0..MaxLayers :
       \E set_layers_ret \in {0, -1} : \E plan_ret \in {0, -1} :
         \E commit_ret \in {0, -1} :
           Compose(test_only, import_fails_at, set_layers_ret, plan_ret, commit_ret)

\* PresentDisplay that counts a failed present only when it returns an error.
FailedPresents_ErrorsOnly(ret) ==
  IF ret \notin {"None", "BadLayer"}
    THEN total_stats_.failed_kms_present_ + 1
    ELSE total_stats_.failed_kms_present_

\* PresentDisplay: failed_kms_present_ after the composition returned ret.
FailedPresents(ret) ==
  IF ret # "None"
    THEN total_stats_.failed_kms_present_ + 1
    ELSE total_stats_.failed_kms_present_

\* PresentDisplay that hands the error of an empty composition to the caller.
PresentReturn_BadLayerIsError(ret) ==
  IF ret # "None" THEN [ret |-> ret, present_fence |-> "unwritten", presented |-> FALSE]
  ELSE [ret |-> "None", present_fence |-> "out_fence", presented |-> TRUE]

\* PresentDisplay that leaves a failure behind: it returns the error of the
\* composition before, if that one failed.
PresentReturn_Sticky(ret) ==
  IF present.ret \notin {"none", "None"}
    THEN [ret |-> present.ret, present_fence |-> "unwritten", presented |-> FALSE]
  ELSE IF ret = "BadLayer"
    THEN [ret |-> "None", present_fence |-> "-1", presented |-> FALSE]
  ELSE IF ret # "None"
    THEN [ret |-> ret, present_fence |-> "unwritten", presented |-> FALSE]
  ELSE [ret |-> "None", present_fence |-> "out_fence", presented |-> TRUE]

\* PresentDisplay that advances frame_no_ on an empty composition as well.
PresentReturn_EmptyAdvances(ret) ==
  IF ret = "BadLayer" THEN [ret |-> "None", present_fence |-> "-1", presented |-> TRUE]
  ELSE IF ret # "None"
    THEN [ret |-> ret, present_fence |-> "unwritten", presented |-> FALSE]
  ELSE [ret |-> "None", present_fence |-> "out_fence", presented |-> TRUE]

\* PresentDisplay, from the return of CreateComposition: the return value, what
\* *present_fence is set to, and whether frame_no_ is advanced.
PresentReturn(ret) ==
  IF ret = "BadLayer" THEN [ret |-> "None", present_fence |-> "-1", presented |-> FALSE]
  ELSE IF ret # "None"
    THEN [ret |-> ret, present_fence |-> "unwritten", presented |-> FALSE]
  ELSE [ret |-> "None", present_fence |-> "out_fence", presented |-> TRUE]

\* HwcDisplay::PresentDisplay.
PresentDisplay(import_fails_at, set_layers_ret, plan_ret, commit_ret) ==
  /\ total_stats_.total_frames_ < MaxFrames
  /\ LET r == CreateComposition(FALSE, import_fails_at, set_layers_ret, plan_ret,
                                commit_ret)
         p == PresentReturn(r.ret)
     IN /\ Composed(r)
        /\ total_stats_' = [total_frames_ |-> total_stats_.total_frames_ + 1,
                            failed_kms_present_ |-> FailedPresents(r.ret)]
        /\ frame_no_' = IF p.presented THEN frame_no_ + 1 ELSE frame_no_
        /\ present' = [ret |-> p.ret, present_fence |-> p.present_fence,
                       composition |-> r.ret,
                       inputs_ok |-> /\ import_fails_at \notin 1..Len(r.z_map)
                                     /\ set_layers_ret = 0
                                     /\ plan_ret = 0
                                     /\ commit_ret = 0,
                       previous |-> present.composition]

\* PresentDisplay over the layers CreateLayer and ValidateDisplay leave, with the
\* mode ChosePreferredConfig stages.
NextPresent ==
  \/ CreateLayer /\ UNCHANGED <<mvars, fvars>>
  \/ \E types \in [DOMAIN layers_ -> CompositionTypes] :
       ValidateDisplay(types) /\ UNCHANGED <<mvars, fvars>>
  \/ \E err \in BOOLEAN : \E configs \in SUBSET ConfigIds : \E preferred \in ConfigIds :
       ChosePreferredConfig(err, configs, preferred) /\ UNCHANGED fvars
  \/ \E import_fails_at \in 0..MaxLayers : \E set_layers_ret \in {0, -1} :
       \E plan_ret \in {0, -1} : \E commit_ret \in {0, -1} :
         PresentDisplay(import_fails_at, set_layers_ret, plan_ret, commit_ret)

(***************************************************************************)
(* HwcDisplay: the power mode.                                             *)
(***************************************************************************)
MaxPowerCalls == 4

\* HWC2::PowerMode, and the values a caller can pass as int32_t: the four modes,
\* one below and one above.
Off == 0
Doze == 1
On == 2
DozeSuspend == 3
PowerModeInputs == (Off - 1)..(DozeSuspend + 1)

\* AtomicCommitArgs{}: no active flag, no composition, no mode.
DefaultCommitArgs ==
  [active |-> "nullopt", composition |-> "none", display_mode |-> NoMode,
   test_only |-> FALSE]

InitPower ==
  power = [calls |-> 0, commits |-> <<>>, dpms |-> 0, mode_in |-> Off, ret |-> "none"]

\* SetPowerMode that turns the display on with a commit of active = true.
SetPowerModeReturn_OnCommits(mode_in, dpms_ret, err) ==
  IF mode_in \in {Off, On}
    THEN [ret |-> IF err # 0 THEN "BadParameter" ELSE "None",
          commits |-> <<[DefaultCommitArgs EXCEPT
                           !.active = IF mode_in = On THEN "true" ELSE "false"]>>,
          dpms |-> 0]
  ELSE IF mode_in \in {Doze, DozeSuspend}
    THEN [ret |-> "Unsupported", commits |-> <<>>, dpms |-> 0]
  ELSE [ret |-> "BadParameter", commits |-> <<>>, dpms |-> 0]

\* HwcDisplay::SetPowerMode(mode_in), where ActivateDisplayUsingDPMS returns
\* dpms_ret and ExecuteAtomicCommit returns err: the return value, the a_args it
\* gave to ExecuteAtomicCommit, and its calls of ActivateDisplayUsingDPMS.
SetPowerModeReturn(mode_in, dpms_ret, err) ==
  IF mode_in = Off
    THEN [ret |-> IF err # 0 THEN "BadParameter" ELSE "None",
          commits |-> <<[DefaultCommitArgs EXCEPT !.active = "false"]>>,
          dpms |-> 0]
  ELSE IF mode_in = On
    THEN [ret |-> IF dpms_ret = 0 THEN "None" ELSE "BadParameter",
          commits |-> <<>>, dpms |-> 1]
  ELSE IF mode_in \in {Doze, DozeSuspend}
    THEN [ret |-> "Unsupported", commits |-> <<>>, dpms |-> 0]
  ELSE [ret |-> "BadParameter", commits |-> <<>>, dpms |-> 0]

\* The consumer calls SetPowerMode(mode_in).
SetPowerMode(mode_in, dpms_ret, err) ==
  /\ power.calls < MaxPowerCalls
  /\ LET r == SetPowerModeReturn(mode_in, dpms_ret, err)
     IN power' = [calls |-> power.calls + 1,
                  commits |-> power.commits \o r.commits,
                  dpms |-> power.dpms + r.dpms,
                  mode_in |-> mode_in,
                  ret |-> r.ret]

NextPower ==
  \E mode_in \in PowerModeInputs : \E dpms_ret \in {0, -1} : \E err \in {0, -1} :
    SetPowerMode(mode_in, dpms_ret, err)

(***************************************************************************)
(* HwcDisplay: the client-flattening countdown.                            *)
(***************************************************************************)
MaxCountdown == 3
MaxTicks == 5

\* ClientFlattenningState: the states that are not a countdown.
Disabled == -3
NotRequired == -2
Flattened == -1
ClientRefreshRequested == 0

NotArmed == [armed_at |-> 0, ticks |-> 0, refreshes |-> 0, handler |-> FALSE]

RefreshRegistered == refresh_callback_.first /\ refresh_callback_.second

InitFlattening ==
  /\ flattenning_state_ = NotRequired
  /\ refresh_callback_ = [first |-> FALSE, second |-> FALSE]
  /\ flattening_vsync_enabled = FALSE
  /\ countdown = NotArmed

\* DrmHwcTwo::RegisterCallback(HWC2::Callback::Refresh, data, function).
RegisterRefreshCallback(function, data) ==
  /\ refresh_callback_' = [first |-> function, second |-> data]
  /\ countdown' = [countdown EXCEPT !.handler = countdown.handler /\ function /\ data]
  /\ UNCHANGED <<flattenning_state_, flattening_vsync_enabled>>

\* A frame is judged flattenable: the state is set to a countdown and the tick
\* source is armed.
ArmFlattening(n) ==
  /\ flattenning_state_' = n
  /\ flattening_vsync_enabled' = TRUE
  /\ countdown' = [armed_at |-> n, ticks |-> 0, refreshes |-> 0,
                   handler |-> RefreshRegistered]
  /\ UNCHANGED refresh_callback_

\* The flattening policy puts the state in one of the states that are no countdown.
SetFlatteningState(state) ==
  /\ flattenning_state_' = state
  /\ countdown' = NotArmed
  /\ UNCHANGED <<refresh_callback_, flattening_vsync_enabled>>

\* The flattening tick with the countdown's test left out: a refresh request on
\* every tick that finds the state at ClientRefreshRequested afterwards.
FlatteningTick_NoCountdownTest ==
  /\ countdown.ticks < MaxTicks
  /\ LET state == IF flattenning_state_ > ClientRefreshRequested
                    THEN flattenning_state_ - 1 ELSE flattenning_state_
         refresh == state = ClientRefreshRequested /\ RefreshRegistered
     IN /\ flattenning_state_' = state
        /\ flattening_vsync_enabled' = IF refresh THEN FALSE ELSE flattening_vsync_enabled
        /\ countdown' = [countdown EXCEPT !.ticks = countdown.ticks + 1,
                           !.refreshes = countdown.refreshes + IF refresh THEN 1 ELSE 0]
  /\ UNCHANGED refresh_callback_

\* The flattening tick that counts down whatever the state is.
FlatteningTick_CountsAnyState ==
  /\ countdown.ticks < MaxTicks
  /\ LET state == flattenning_state_ - 1
         refresh == state = ClientRefreshRequested /\ RefreshRegistered
     IN /\ flattenning_state_' = state
        /\ flattening_vsync_enabled' = IF refresh THEN FALSE ELSE flattening_vsync_enabled
        /\ countdown' = [countdown EXCEPT !.ticks = countdown.ticks + 1,
                           !.refreshes = countdown.refreshes + IF refresh THEN 1 ELSE 0]
  /\ UNCHANGED refresh_callback_

\* The callback HwcDisplay::Init gives flattening_vsync_worker_.  The worker may
\* call it whether armed or not (a tick in flight when VSyncControl(false) is
\* called).
FlatteningTick ==
  /\ countdown.ticks < MaxTicks
  /\ LET counting == flattenning_state_ > ClientRefreshRequested
         state == IF counting THEN flattenning_state_ - 1 ELSE flattenning_state_
         refresh == counting /\ state = ClientRefreshRequested /\ RefreshRegistered
     IN /\ flattenning_state_' = state
        /\ flattening_vsync_enabled' = IF refresh THEN FALSE ELSE flattening_vsync_enabled
        /\ countdown' = [countdown EXCEPT !.ticks = countdown.ticks + 1,
                           !.refreshes = countdown.refreshes + IF refresh THEN 1 ELSE 0]
  /\ UNCHANGED refresh_callback_

NextFlattening ==
  \/ \E function \in BOOLEAN : \E data \in BOOLEAN : RegisterRefreshCallback(function, data)
  \/ \E n \in 1..MaxCountdown : ArmFlattening(n)
  \/ \E state \in {Disabled, NotRequired, Flattened} : SetFlatteningState(state)
  \/ FlatteningTick

(***************************************************************************)
(* ResourceManager: the device nodes.                                      *)
(***************************************************************************)
MaxNodes == 2

\* A device node: the counts of drmModeGetResources (none or some) and what
\* DrmDevice::Init returns for the node.
DeviceNodes ==
  [count_crtcs : 0..1, count_connectors : 0..1, count_encoders : 0..1,
   init_ret : {"0", "-EACCES"}]
DeviceNodeLists == UNION {[1..n -> DeviceNodes] : n \in 0..MaxNodes}

\* The value of vendor.hwc.drm.device: "/dev/dri/card%" (no index), or
\* "/dev/dri/card<idx>" for an idx that may name no node.
Wildcard == -1
DevicePaths == {Wildcard} \cup 0..MaxNodes

NotScanned == [pc |-> "start", idx |-> 0, ret |-> "0"]

\* The nodes before construction of the resource manager.
InitDevices(nodes, path) ==
  /\ device_nodes = nodes
  /\ device_path = path
  /\ drms_ = <<>>
  /\ scan = NotScanned

\* stat(path) == 0 for the node of index idx.
Exists(idx) == idx + 1 \in DOMAIN device_nodes

\* DrmDevice::IsKMSDev that asks for crtcs only.
IsKMSDev_CrtcsOnly(idx) ==
  /\ Exists(idx)
  /\ device_nodes[idx + 1].count_crtcs > 0

\* DrmDevice::IsKMSDev of the node of index idx.
IsKMSDev(idx) ==
  /\ Exists(idx)
  /\ device_nodes[idx + 1].count_crtcs > 0
  /\ device_nodes[idx + 1].count_connectors > 0
  /\ device_nodes[idx + 1].count_encoders > 0

\* DrmDevice::Init(path): -ENODEV when open fails.
DrmDeviceInit(idx) ==
  IF Exists(idx) THEN device_nodes[idx + 1].init_ret ELSE "-ENODEV"

\* ResourceManager::AddDrmDevice: the device is pushed whatever Init returns.
AddDrmDevice(idx) ==
  [drms_ |-> Append(drms_, idx), ret |-> DrmDeviceInit(idx)]

\* ResourceManager::Init up to the device loop: with an explicit path the one
\* device is added, with the wildcard the loop begins at idx = 0.
InitDevicePath ==
  /\ scan.pc = "start"
  /\ IF device_path # Wildcard
       THEN LET added == AddDrmDevice(device_path)
            IN /\ drms_' = added.drms_
               /\ scan' = [pc |-> "done", idx |-> 0, ret |-> added.ret]
       ELSE /\ scan' = [scan EXCEPT !.pc = "loop"]
            /\ UNCHANGED drms_
  /\ UNCHANGED <<device_nodes, device_path>>

\* One turn of `for (int idx = 0; ret == 0; ++idx)`.
InitDeviceLoop ==
  /\ scan.pc = "loop"
  /\ IF scan.ret # "0" \/ ~Exists(scan.idx)
       THEN /\ scan' = [scan EXCEPT !.pc = "done"]
            /\ UNCHANGED drms_
     ELSE IF IsKMSDev(scan.idx)
       THEN LET added == AddDrmDevice(scan.idx)
            IN /\ drms_' = added.drms_
               /\ scan' = [scan EXCEPT !.idx = scan.idx + 1, !.ret = added.ret]
     ELSE /\ scan' = [scan EXCEPT !.idx = scan.idx + 1]
          /\ UNCHANGED drms_
  /\ UNCHANGED <<device_nodes, device_path>>

NextDevices == InitDevicePath \/ InitDeviceLoop

(***************************************************************************)
(* ResourceManager: the primary display and the display numbers.           *)
(***************************************************************************)
MaxConnectors == 3
MaxDisplayOrder == 3

\* A connector's type and state.  Every connector has type id 1, so that the type
\* stands for the name ("DSI" for "DSI-1"); two connectors of one type are two
\* devices' connectors of one name.
ConnectorTypes == {"DSI", "HDMI-A", "Composite"}
DrmConnectors == [type : ConnectorTypes, state : {"connected", "disconnected"}]
CatchAll == "..."

internal(conn) == conn.type = "DSI"
external(conn) == conn.type = "HDMI-A"
writeback(conn) == conn.type = "Writeback"
name(conn) == conn.type
connected(conn) == conn.state = "connected"

ConnObj(i) == <<"connector", i>>

\* What ReadPrimaryDisplayOrderProp can return: the names between the commas of a
\* property value, which is never empty.
DisplayOrders ==
  UNION {[1..n -> ConnectorTypes \cup {CatchAll}] : n \in 1..MaxDisplayOrder}
ConnectorLists == UNION {[1..n -> DrmConnectors] : n \in 0..MaxConnectors}

\* The connectors drmModeGetResources reports of the devices, the writeback
\* connectors among them.
KmsConnectors ==
  [type : ConnectorTypes \cup {"Writeback"}, state : {"connected", "disconnected"}]
KmsConnectorLists == UNION {[1..n -> KmsConnectors] : n \in 0..MaxConnectors}
DefaultDisplayOrder == <<CatchAll>>

NoInputs == [ret |-> "none", getter |-> FALSE, uevent_ret |-> "none"]
NotInitialized ==
  [pc |-> "constructed", ret |-> "none", primary_candidates |-> <<>>,
   inputs |-> NoInputs]

\* DrmDevice::Init that puts every connector into connectors_.
DrmDeviceInitConnectors_KeepWriteback(res_connectors) ==
  [connectors_ |-> res_connectors, writeback_connectors_ |-> <<>>]

\* The connector loop of DrmDevice::Init: the writeback connectors go to
\* writeback_connectors_, the others to connectors_, which GetConnectors returns.
DrmDeviceInitConnectors(res_connectors) ==
  [connectors_ |-> SelectSeq(res_connectors, LAMBDA conn : ~writeback(conn)),
   writeback_connectors_ |-> SelectSeq(res_connectors, writeback)]

\* The resource manager as constructed, over the connectors the kernel reports
\* and the property.
InitResourceManager(connectors, order) ==
  /\ all_connectors = DrmDeviceInitConnectors(connectors).connectors_
  /\ writeback_connectors_ = DrmDeviceInitConnectors(connectors).writeback_connectors_
  /\ display_order = order
  /\ connectors_ = <<>>
  /\ rm = NotInitialized
  /\ init_ret = "none"

\* std::find_if over the candidates by name: the first position with the name, or
\* the end.
FindIf(connectors, candidates, display_name) ==
  LET hits == {i \in 1..Len(candidates) : name(connectors[candidates[i]]) = display_name}
  IN IF hits = {} THEN Len(candidates) + 1
     ELSE CHOOSE i \in hits : \A j \in hits : i <= j

IterSwap(candidates, i, j) ==
  [candidates EXCEPT ![i] = candidates[j], ![j] = candidates[i]]

\* The loop over display_order from its k-th name on: the candidates as it leaves
\* them and curr_connector; undefined when it swaps with the end iterator.
RECURSIVE PutListedFirst(_, _, _, _, _)
PutListedFirst(connectors, candidates, curr_connector, order, k) ==
  IF k > Len(order)
    THEN [candidates |-> candidates, curr_connector |-> curr_connector,
          undefined |-> FALSE]
  ELSE LET it == FindIf(connectors, candidates, order[k])
       IN IF it > Len(candidates)
            THEN PutListedFirst(connectors, candidates, curr_connector, order, k + 1)
          ELSE IF curr_connector > Len(candidates)
            THEN [candidates |-> candidates, curr_connector |-> curr_connector,
                  undefined |-> TRUE]
          ELSE PutListedFirst(connectors, IterSwap(candidates, it, curr_connector),
                              curr_connector + 1, order, k + 1)

\* The candidates from curr_connector on in every order.
Partition_NoPredicate(connectors, candidates, curr_connector) ==
  LET n == Len(candidates)
  IN {[i \in 1..n |-> IF i < curr_connector THEN candidates[i] ELSE candidates[f[i]]] :
        f \in Permutations(curr_connector..n)}

\* std::partition from curr_connector to the end by internal(): every order the
\* standard allows, the internal connectors before the others.
Partition(connectors, candidates, curr_connector) ==
  LET n == Len(candidates)
      orders == {[i \in 1..n |-> IF i < curr_connector THEN candidates[i]
                                                       ELSE candidates[f[i]]] :
                   f \in Permutations(curr_connector..n)}
  IN {p \in orders :
        \A i \in curr_connector..n : \A j \in curr_connector..n :
          (i < j /\ internal(connectors[p[j]])) => internal(connectors[p[i]])}

\* What MakePrimaryDisplayCandidates can return; after undefined behaviour the
\* process is gone or goes on with the candidates in any state.
MakePrimaryDisplayCandidates(connectors, order) ==
  LET indices == [i \in 1..Len(connectors) |-> i]
      primary_candidates == SelectSeq(indices, LAMBDA i : connected(connectors[i]))
      use_other == order[Len(order)] = CatchAll
      listed == PutListedFirst(connectors, primary_candidates, 1, order, 1)
      n == Len(primary_candidates)
  IN IF listed.undefined
       THEN {[crashed |-> TRUE, candidates |-> <<>>]}
            \cup {[crashed |-> FALSE, candidates |-> SubSeq(p, 1, len)] :
                    p \in Partition_NoPredicate(connectors, primary_candidates, 1),
                    len \in 0..n}
     ELSE IF use_other
       THEN {[crashed |-> FALSE, candidates |-> p] :
               p \in Partition(connectors, listed.candidates, listed.curr_connector)}
     ELSE {[crashed |-> FALSE,
            candidates |-> SubSeq(listed.candidates, 1, listed.curr_connector - 1)]}

\* connectors_[num_displays] = owned_conn.
Registered(displays, num_displays, i) ==
  [d \in DOMAIN displays \cup {num_displays} |->
     IF d = num_displays THEN i ELSE displays[d]]

\* The second loop of ReorderConnectors, every connector given a number whoever
\* owns it.
RECURSIVE AssignDisplays_Unowned(_, _, _, _, _)
AssignDisplays_Unowned(connectors, own, displays, num_displays, i) ==
  IF i > Len(connectors) THEN displays
  ELSE IF external(connectors[i]) \/ internal(connectors[i])
    THEN AssignDisplays_Unowned(connectors, own, Registered(displays, num_displays, i),
                                num_displays + 1, i + 1)
  ELSE AssignDisplays_Unowned(connectors, own, displays, num_displays, i + 1)

\* The second loop of ReorderConnectors, passing over the connectors that are not
\* connected.
RECURSIVE AssignDisplays_ConnectedOnly(_, _, _, _, _)
AssignDisplays_ConnectedOnly(connectors, own, displays, num_displays, i) ==
  IF i > Len(connectors) THEN displays
  ELSE IF (external(connectors[i]) \/ internal(connectors[i])) /\ connected(connectors[i])
    THEN LET owned_conn == OwnDrmObject(own, ConnObj(i), 1)
         IN IF owned_conn.holder # NoHolder
              THEN AssignDisplays_ConnectedOnly(connectors, owned_conn.own,
                                                Registered(displays, num_displays, i),
                                                num_displays + 1, i + 1)
              ELSE AssignDisplays_ConnectedOnly(connectors, own, displays,
                                                num_displays, i + 1)
  ELSE AssignDisplays_ConnectedOnly(connectors, own, displays, num_displays, i + 1)

\* The second loop of ReorderConnectors from the i-th connector on: each internal
\* or external connector that OwnDrmObject gives gets the next display number.
RECURSIVE AssignDisplays(_, _, _, _, _)
AssignDisplays(connectors, own, displays, num_displays, i) ==
  IF i > Len(connectors) THEN displays
  ELSE IF external(connectors[i]) \/ internal(connectors[i])
    THEN LET owned_conn == OwnDrmObject(own, ConnObj(i), 1)
         IN IF owned_conn.holder # NoHolder
              THEN AssignDisplays(connectors, owned_conn.own,
                                  Registered(displays, num_displays, i),
                                  num_displays + 1, i + 1)
              ELSE AssignDisplays(connectors, own, displays, num_displays, i + 1)
  ELSE AssignDisplays(connectors, own, displays, num_displays, i + 1)

\* ReorderConnectors with the second loop run only once a primary is found.
ReorderConnectors_NoFallback(connectors, primary_candidates) ==
  LET unowned == [o \in {ConnObj(i) : i \in 1..Len(connectors)} |-> 0]
      owned_conn == OwnDrmObject(unowned, ConnObj(primary_candidates[1]), 1)
  IN IF primary_candidates # <<>> /\ owned_conn.holder # NoHolder
       THEN AssignDisplays(connectors, owned_conn.own,
                           Registered(<<>>, 1, primary_candidates[1]), 2, 1)
       ELSE <<>>

\* ReorderConnectors: connectors_ as it leaves it, display number -> connector.
ReorderConnectors(connectors, primary_candidates) ==
  LET unowned == [o \in {ConnObj(i) : i \in 1..Len(connectors)} |-> 0]
      owned_conn == OwnDrmObject(unowned, ConnObj(primary_candidates[1]), 1)
  IN IF primary_candidates # <<>> /\ owned_conn.holder # NoHolder
       THEN AssignDisplays(connectors, owned_conn.own,
                           Registered(<<>>, 1, primary_candidates[1]), 2, 1)
       ELSE AssignDisplays(connectors, unowned, <<>>, 1, 1)

\* What ResourceManager::Init would return if no display were a plain error.
InitReturn_NoDisplayFails(displays, ret, getter, uevent_ret) ==
  IF displays = <<>> THEN "-EINVAL"
  ELSE IF ~getter THEN "-EINVAL"
  ELSE uevent_ret

\* What ResourceManager::Init returns once ReorderConnectors has run.
InitReturn(displays, ret, getter, uevent_ret) ==
  IF displays = <<>> THEN (IF ret # "0" THEN "-EINVAL" ELSE ret)
  ELSE IF ~getter THEN "-EINVAL"
  ELSE uevent_ret

\* ResourceManager::Init: `ret` is what adding the devices left, the other two
\* what BufferInfoGetter::GetInstance and UEventListener::Init give.
ResourceManagerInit(ret, getter, uevent_ret) ==
  /\ rm.pc = "constructed"
  /\ \E made \in MakePrimaryDisplayCandidates(all_connectors, display_order) :
       IF made.crashed
         THEN /\ rm' = [rm EXCEPT !.pc = "crashed"]
              /\ UNCHANGED connectors_
         ELSE LET displays == ReorderConnectors(all_connectors, made.candidates)
              IN /\ connectors_' = displays
                 /\ rm' = [pc |-> "initialized",
                           ret |-> InitReturn(displays, ret, getter, uevent_ret),
                           primary_candidates |-> made.candidates,
                           inputs |-> [ret |-> ret, getter |-> getter,
                                       uevent_ret |-> uevent_ret]]
  /\ UNCHANGED <<all_connectors, writeback_connectors_, display_order>>

\* DrmHwcTwo::Init over the resource manager: a display for each connector of
\* GetAvailableConnectors and the hotplug handler, or NoResources.
DrmHwcTwoInitDisplays(ret, getter, uevent_ret) ==
  /\ ResourceManagerInit(ret, getter, uevent_ret)
  /\ IF rm'.pc = "crashed"
       THEN UNCHANGED <<displays_, handler_registered, init_runs, init_ret>>
       ELSE /\ DrmHwcTwoInit(rm'.ret # "0", Cardinality(DOMAIN connectors_'))
            /\ init_ret' = IF rm'.ret # "0" THEN "NoResources" ELSE "None"
  /\ UNCHANGED <<master_lock, hpc, iter, delivered, hotplug_callback_>>

NextResourceManager ==
  \E ret \in {"0", "error"} : \E getter \in BOOLEAN : \E uevent_ret \in {"0", "error"} :
    DrmHwcTwoInitDisplays(ret, getter, uevent_ret)

(***************************************************************************)
(* DrmHwcTwo: registration of the vsync and refresh callbacks against the  *)
(* timer threads that call them.                                           *)
(***************************************************************************)
NumHandlers == 2

\* The consumer's handlers and their data; 0 is the null pointer.
Handlers == 0..NumHandlers

\* The thread of a display's vsync_worker_ and of its flattening_vsync_worker_.
VsyncThread == <<"vsync", 0>>
FlatteningThread == <<"flattening", 0>>
TimerThreads == {VsyncThread, FlatteningThread}

NoCallback == [first |-> 0, second |-> 0]
NotRegistering == [pc |-> "idle", descriptor |-> "none", function |-> 0, data |-> 0]

InitCallbacks ==
  /\ callback_lock_ = NoThread
  /\ vsync_callback_ = NoCallback
  /\ refresh_table = NoCallback
  /\ tpc = [th \in TimerThreads |-> "idle"]
  /\ fetched = [th \in TimerThreads |-> NoCallback]
  /\ rpc = NotRegistering

\* The table a timer thread's callback reads.
TableOf(th) == IF th = VsyncThread THEN vsync_callback_ ELSE refresh_table
DescriptorOf(th) == IF th = VsyncThread THEN "Vsync" ELSE "Refresh"

\* RegisterCallback(Vsync or Refresh, data, function): the assignment of the pair
\* stores its first member...
RegisterCallback_StoreFirst(descriptor, function, data) ==
  /\ rpc.pc = "idle"
  /\ rpc' = [pc |-> "storing", descriptor |-> descriptor, function |-> function,
             data |-> data]
  /\ IF descriptor = "Vsync"
       THEN /\ vsync_callback_' = [vsync_callback_ EXCEPT !.first = function]
            /\ UNCHANGED refresh_table
       ELSE /\ refresh_table' = [refresh_table EXCEPT !.first = function]
            /\ UNCHANGED vsync_callback_
  /\ UNCHANGED <<callback_lock_, tpc, fetched>>

\* ... and then its second.
RegisterCallback_StoreSecond ==
  /\ rpc.pc = "storing"
  /\ rpc' = NotRegistering
  /\ IF rpc.descriptor = "Vsync"
       THEN /\ vsync_callback_' = [vsync_callback_ EXCEPT !.second = rpc.data]
            /\ UNCHANGED refresh_table
       ELSE /\ refresh_table' = [refresh_table EXCEPT !.second = rpc.data]
            /\ UNCHANGED vsync_callback_
  /\ UNCHANGED <<callback_lock_, tpc, fetched>>

\* A timer callback starts: lock_guard on callback_lock_.
TimerCallbackLock(th) ==
  /\ tpc[th] = "idle"
  /\ callback_lock_ = NoThread
  /\ callback_lock_' = th
  /\ tpc' = [tpc EXCEPT ![th] = "locked"]
  /\ UNCHANGED <<vsync_callback_, refresh_table, fetched, rpc>>

\* The flattening tick whose countdown test fails: it returns without a look at
\* refresh_callback_.
FlatteningTickNotDue(th) ==
  /\ th = FlatteningThread
  /\ tpc[th] = "locked"
  /\ callback_lock_' = NoThread
  /\ tpc' = [tpc EXCEPT ![th] = "idle"]
  /\ UNCHANGED <<vsync_callback_, refresh_table, fetched, rpc>>

\* The callback reads the function of its table...
TimerCallbackReadFirst(th) ==
  /\ tpc[th] = "locked"
  /\ fetched' = [fetched EXCEPT ![th] = [first |-> TableOf(th).first, second |-> 0]]
  /\ tpc' = [tpc EXCEPT ![th] = "first_read"]
  /\ UNCHANGED <<callback_lock_, vsync_callback_, refresh_table, rpc>>

\* ... then the data, calls the function with the data if neither is null, and
\* returns.
TimerCallbackCall(th) ==
  /\ tpc[th] = "first_read"
  /\ fetched' = [fetched EXCEPT ![th].second = TableOf(th).second]
  /\ callback_lock_' = NoThread
  /\ tpc' = [tpc EXCEPT ![th] = "idle"]
  /\ UNCHANGED <<vsync_callback_, refresh_table, rpc>>

NextCallbacks ==
  \/ \E descriptor \in {"Vsync", "Refresh"} : \E function \in Handlers :
       \E data \in Handlers : RegisterCallback_StoreFirst(descriptor, function, data)
  \/ RegisterCallback_StoreSecond
  \/ \E th \in TimerThreads : TimerCallbackLock(th)
  \/ \E th \in TimerThreads : FlatteningTickNotDue(th)
  \/ \E th \in TimerThreads : TimerCallbackReadFirst(th)
  \/ \E th \in TimerThreads : TimerCallbackCall(th)

(***************************************************************************)
(* The specifications: the binder over every device of InitDevice; the     *)
(* hotplug dispatch and the display over one device.                       *)
(***************************************************************************)
OneDevice ==
  /\ connEncoders = [c \in Connectors |-> Encoders]
  /\ encCrtcs = [e \in Encoders |-> Crtcs]
  /\ connCurEnc = [c \in Connectors |-> 0]
  /\ encCurCrtc = [e \in Encoders |-> 0]
  /\ planeType = DedicatedLayout.type
  /\ planeCrtcs = DedicatedLayout.crtcs

InitBinder ==
  InitDevice /\ InitPipes /\ InitHotplug /\ InitDisplay /\ InitConfig /\ InitPresent
  /\ InitFlattening
  /\ InitResourceManager(<<>>, DefaultDisplayOrder)
  /\ InitCallbacks
  /\ InitPower
  /\ InitDevices(<<>>, Wildcard)
SpecBinder ==
  InitBinder /\ [][NextPipes /\ UNCHANGED <<hvars, cvars, mvars, fvars, tvars, rvars, lvars, wvars,
                          evars>>]_vars

InitHwcTwo ==
  OneDevice /\ InitPipes /\ InitHotplug /\ InitDisplay /\ InitConfig /\ InitPresent
  /\ InitFlattening
  /\ InitResourceManager(<<>>, DefaultDisplayOrder)
  /\ InitCallbacks
  /\ InitPower
  /\ InitDevices(<<>>, Wildcard)
SpecHotplug ==
  InitHwcTwo /\ [][NextHotplug /\ UNCHANGED <<dvars, pvars, cvars, mvars, fvars, tvars, rvars, lvars, wvars,
                          evars>>]_vars

\* The dispatch under fair scheduling: a thread inside a dispatch or a hooked call
\* takes each step it can, the consumer's callback and its re-entrant call
\* return, and a thread that waits for the master lock gets it if it is free
\* again and again.
DispatchStep(t) ==
  \/ \E f \in BOOLEAN : \E d \in BOOLEAN : RegisterCallback(t, f, d)
  \/ DeviceHookUnlock(t)
  \/ t = UEventThread /\ HotplugHandlerUnlock
  \/ HandleHotplugQuiet(t)
  \/ SendHotplugEventToClient_Call(t)
  \/ ReentrantHookUnlock(t)
  \/ HotplugCallbackReturns(t)
LockStep(t) == ReentrantHookLock(t) \/ SendHotplugEventToClient_Lock(t)
FairScheduling ==
  \A t \in Threads : WF_hvars(DispatchStep(t)) /\ SF_hvars(LockStep(t))
SpecHotplugFair == SpecHotplug /\ FairScheduling

SpecCallbacks ==
  InitHwcTwo
    /\ [][NextCallbacks
           /\ UNCHANGED <<dvars, pvars, hvars, cvars, mvars, fvars, tvars, rvars, wvars,
                          evars>>]_vars

SpecDisplay ==
  InitHwcTwo /\ [][NextDisplay /\ UNCHANGED <<dvars, pvars, hvars, fvars, tvars, rvars, lvars, wvars,
                          evars>>]_vars

SpecConfig ==
  InitHwcTwo /\ [][NextConfig /\ UNCHANGED <<dvars, pvars, hvars, fvars, tvars, rvars, lvars, wvars,
                          evars>>]_vars

SpecCompose ==
  InitHwcTwo /\ [][NextCompose /\ UNCHANGED <<dvars, pvars, hvars, fvars, tvars, rvars, lvars, wvars,
                          evars>>]_vars

InitScan ==
  /\ OneDevice /\ InitPipes /\ InitHotplug /\ InitDisplay /\ InitConfig /\ InitPresent
  /\ InitFlattening
  /\ InitResourceManager(<<>>, DefaultDisplayOrder)
  /\ InitCallbacks
  /\ InitPower
  /\ \E nodes \in DeviceNodeLists : \E path \in DevicePaths : InitDevices(nodes, path)
SpecDevices ==
  InitScan
    /\ [][NextDevices
           /\ UNCHANGED <<dvars, pvars, hvars, cvars, mvars, fvars, tvars, rvars, lvars,
                          wvars>>]_vars

SpecPower ==
  InitHwcTwo
    /\ [][NextPower
           /\ UNCHANGED <<dvars, pvars, hvars, cvars, mvars, fvars, tvars, rvars, lvars,
                          evars>>]_vars

SpecPresent ==
  InitHwcTwo /\ [][NextPresent /\ UNCHANGED <<dvars, pvars, hvars, tvars, rvars, lvars, wvars,
                          evars>>]_vars

SpecFlattening ==
  InitHwcTwo
    /\ [][NextFlattening /\ UNCHANGED <<dvars, pvars, hvars, cvars, mvars, fvars, rvars, lvars, wvars,
                          evars>>]_vars

InitReorder ==
  /\ OneDevice /\ InitPipes /\ InitHotplug /\ InitDisplay /\ InitConfig /\ InitPresent
  /\ InitFlattening
  /\ \E connectors \in KmsConnectorLists : \E order \in DisplayOrders :
       InitResourceManager(connectors, order)
  /\ InitCallbacks
  /\ InitPower
  /\ InitDevices(<<>>, Wildcard)
SpecReorder ==
  InitReorder
    /\ [][NextResourceManager
           /\ UNCHANGED <<dvars, pvars, cvars, mvars, fvars, tvars, lvars, wvars,
                          evars>>]_vars

(***************************************************************************)
(* Properties of the binder.                                               *)
(***************************************************************************)
Free(own, o) == own[o] = 0

\* The primary planes compatible with crtc k.
PrimariesOf(k) == {p \in Planes : planeType[p] = "PRIMARY" /\ k \in planeCrtcs[p]}

\* (e, k) can be bound as things stand in `own`: both free, exactly one compatible
\* primary plane, and that plane free.
Bindable(own, e, k) ==
  /\ Free(own, EncObj(e))
  /\ Free(own, CrtcObj(k))
  /\ Cardinality(PrimariesOf(k)) = 1
  /\ \A p \in PrimariesOf(k) : Free(own, PlaneObj(p))

LegalCandidate(own, c) ==
  \E e \in connEncoders[c] : \E k \in encCrtcs[e] : Bindable(own, e, k)

\* C1: no encoder, crtc or plane is held by two live pipelines.
C1_ExclusiveResources ==
  \A s \in LivePipes : \A t \in LivePipes :
    s # t => Resources(pipes[s]) \cap Resources(pipes[t]) = {}

C1_Witness ==
  /\ Cardinality(LivePipes) = 2
  /\ last.op = "create"
  /\ last.pipe = NoPipe

\* C2: a CreatePipeline that returns none leaves every (object, owner) claim as it
\* was before the call.
C2_FailedBindLeavesNoClaim ==
  [][(last'.op = "create" /\ last'.pipe = NoPipe) => owned' = owned]_vars

\* Two connectors need the same single crtc: one pipeline lives, and the connector
\* that was refused has a free encoder whose only crtc that pipeline holds.
C2_Witness ==
  /\ last.op = "create"
  /\ last.pipe = NoPipe
  /\ Cardinality(LivePipes) = 1
  /\ \E s \in LivePipes :
       /\ pipes[s].connector # last.conn
       /\ \E e \in connEncoders[last.conn] :
            /\ Free(owned, EncObj(e))
            /\ encCrtcs[e] = {pipes[s].crtc}

\* C3: across a CreatePipeline every object that was claimed keeps its owner, and
\* the pipeline returned holds nothing that was claimed before the call.
C3_ClaimedStaysClaimed ==
  [][last'.op = "create" =>
       /\ \A o \in Objects : ~Free(owned, o) => owned'[o] = owned[o]
       /\ last'.pipe # NoPipe =>
            \A o \in Resources(last'.pipe) : Free(owned, o)]_vars

\* A refused bind that reached the claim of a primary plane owned by another
\* connector: encoder and crtc were free, the crtc's one primary plane was not.
C3_Witness ==
  /\ last.op = "create"
  /\ last.pipe = NoPipe
  /\ \E e \in connEncoders[last.conn] : \E k \in encCrtcs[e] :
       /\ Free(owned, EncObj(e))
       /\ Free(owned, CrtcObj(k))
       /\ Cardinality(PrimariesOf(k)) = 1
       /\ \A p \in PrimariesOf(k) : owned[PlaneObj(p)] \notin {0, last.conn}

\* C4 as claimed: every live pipeline is pairwise compatible.
C4_PairwiseCompatible ==
  \A s \in LivePipes :
    /\ pipes[s].encoder \in connEncoders[pipes[s].connector]
    /\ pipes[s].crtc \in encCrtcs[pipes[s].encoder]
    /\ pipes[s].crtc \in planeCrtcs[pipes[s].primary_plane[2]]

\* C4 as amended: the primary plane supports the crtc; the encoder is one the
\* connector supports or the one it reports as current; the crtc is one the
\* encoder supports or the one it reports as current.
C4_CompatibleOrCurrent ==
  \A s \in LivePipes :
    /\ pipes[s].encoder \in connEncoders[pipes[s].connector]
                              \cup {connCurEnc[pipes[s].connector]}
    /\ pipes[s].crtc \in encCrtcs[pipes[s].encoder] \cup {encCurCrtc[pipes[s].encoder]}
    /\ pipes[s].primary_plane # NoHolder
    /\ planeType[pipes[s].primary_plane[2]] = "PRIMARY"
    /\ pipes[s].crtc \in planeCrtcs[pipes[s].primary_plane[2]]

\* A pipeline bound on both shortcut paths.
C4_Witness ==
  \E s \in LivePipes :
    /\ pipes[s].encoder = connCurEnc[pipes[s].connector]
    /\ pipes[s].crtc = encCurCrtc[pipes[s].encoder]
    /\ pipes[s].encoder \notin connEncoders[pipes[s].connector]

\* C5: CreatePipeline returns a pipeline whenever a legal candidate exists.
C5_BindFindsLegalCandidate ==
  [][(last'.op = "create" /\ LegalCandidate(owned, last'.conn))
       => last'.pipe # NoPipe]_vars

\* A bind that succeeded on the last encoder and the last crtc of the lists, the
\* first ones being supported too and claimed by another pipeline.
C5_Witness ==
  /\ last.op = "create"
  /\ last.pipe # NoPipe
  /\ last.pipe.encoder = NumEncoders
  /\ last.pipe.crtc = NumCrtcs
  /\ connCurEnc[last.conn] = 0
  /\ encCurCrtc[NumEncoders] = 0
  /\ 1 \in connEncoders[last.conn]
  /\ 1 \in encCrtcs[NumEncoders]
  /\ \E s \in LivePipes : pipes[s].connector # last.conn

\* C6: a free current encoder with a free current crtc that has exactly one
\* compatible primary plane, free too, is what CreatePipeline binds.
C6_CurrentBindingPreferred ==
  [][(/\ last'.op = "create"
      /\ connCurEnc[last'.conn] # 0
      /\ encCurCrtc[connCurEnc[last'.conn]] # 0
      /\ Bindable(owned, connCurEnc[last'.conn], encCurCrtc[connCurEnc[last'.conn]]))
       => /\ last'.pipe.encoder = connCurEnc[last'.conn]
          /\ last'.pipe.crtc = encCurCrtc[connCurEnc[last'.conn]]]_vars

\* The current setup was bound although the first encoder and the first crtc of
\* the lists are a legal candidate as well, still free after the call.
C6_Witness ==
  /\ last.op = "create"
  /\ last.pipe # NoPipe
  /\ connCurEnc[last.conn] = NumEncoders
  /\ encCurCrtc[NumEncoders] = NumCrtcs
  /\ last.pipe.encoder = NumEncoders
  /\ last.pipe.crtc = NumCrtcs
  /\ 1 \in connEncoders[last.conn]
  /\ 1 \in encCrtcs[1]
  /\ Bindable(owned, 1, 1)

\* C7: after a pipeline's destruction nothing it held is claimed, and a
\* CreatePipeline on the same connector right after it succeeds.
C7_DestroyReleasesAll ==
  /\ last.op = "destroy" => \A o \in Resources(last.pipe) : Free(owned, o)
  /\ (last.op = "create" /\ last.rebind) => last.pipe # NoPipe

C7_Witness ==
  /\ last.op = "create"
  /\ last.rebind
  /\ Len(last.pipe.overlay_planes) > 0
  /\ Cardinality(LivePipes) = 2

\* The overlay planes compatible with crtc k.
OverlaysOf(k) == {p \in Planes : planeType[p] = "OVERLAY" /\ k \in planeCrtcs[p]}

\* C27: the pipeline CreatePipeline returns holds, each once, the overlay planes
\* compatible with its crtc that nobody had claimed before the call, and nothing
\* else as overlay; it holds one primary plane; and no CreatePipeline is refused
\* while a legal candidate exists, whoever holds the overlay planes.
C27_OverlaysBestEffort ==
  [][last'.op = "create" =>
       /\ LegalCandidate(owned, last'.conn) => last'.pipe # NoPipe
       /\ last'.pipe # NoPipe =>
            LET overlays == last'.pipe.overlay_planes
            IN /\ {overlays[i] : i \in 1..Len(overlays)}
                    = {PlaneObj(p) : p \in {q \in OverlaysOf(last'.pipe.crtc) :
                                               Free(owned, PlaneObj(q))}}
               /\ \A i \in 1..Len(overlays) : \A j \in 1..Len(overlays) :
                    overlays[i] = overlays[j] => i = j
               /\ last'.pipe.primary_plane # NoHolder
               /\ planeType[last'.pipe.primary_plane[2]] = "PRIMARY"]_vars

\* A pipeline was made without the overlay plane its crtc supports, which the
\* pipeline of another connector holds.
C27_Witness ==
  /\ last.op = "create"
  /\ last.pipe # NoPipe
  /\ last.pipe.overlay_planes = <<>>
  /\ \E q \in OverlaysOf(last.pipe.crtc) :
       \E s \in LivePipes :
         /\ pipes[s].connector # last.conn
         /\ \E i \in 1..Len(pipes[s].overlay_planes) :
              pipes[s].overlay_planes[i] = PlaneObj(q)

(***************************************************************************)
(* Properties of the hotplug dispatch.                                     *)
(***************************************************************************)
\* C8: the consumer's hotplug callback runs only while the dispatching thread
\* does not hold the master lock, and once SendHotplugEventToClient has returned
\* the thread holds the lock again, on the handler's path and on
\* RegisterCallback's.
C8_CallbackRunsUnlocked ==
  \A t \in Threads :
    /\ hpc[t] \in {"in_callback", "reentering", "called_back", "relock"}
         => master_lock # t
    /\ hpc[t] = "update" => master_lock = t

\* Both paths at once: the handler's thread is inside the callback while the
\* thread of RegisterCallback, a callback delivered, is back under the lock.
C8_Witness ==
  /\ hpc[UEventThread] = "in_callback"
  /\ \E t \in ClientThreads :
       hpc[t] = "update" /\ delivered[t] > 0 /\ master_lock = t

\* C23: once a display is registered, no step of a hotplug dispatch or of a
\* registration of the hotplug callback changes the registered display handles,
\* unregisters the hotplug handler or runs DrmHwcTwo::Init.
C23_DisplaysFixedOnceRegistered ==
  [][displays_ # {} =>
       /\ displays_' = displays_
       /\ handler_registered' = handler_registered
       /\ init_runs' = init_runs]_vars

\* With the displays registered, the handler's thread is inside the consumer's
\* callback of a hotplug dispatch while a thread that registers the callback is
\* back under the lock.
C23_Witness ==
  /\ displays_ = 1..MaxDisplays
  /\ hpc[UEventThread] = "in_callback"
  /\ \E t \in ClientThreads : hpc[t] = "update" /\ delivered[t] > 0

C26_RegistrationExcludesInvocation ==
  \A th \in TimerThreads :
    ~(tpc[th] # "idle" /\ rpc.pc = "storing" /\ rpc.descriptor = DescriptorOf(th))

(***************************************************************************)
(* Properties of the layer handles.                                        *)
(***************************************************************************)
\* C24: every handle CreateLayer returns is greater than every handle it returned
\* before, whatever layers were destroyed in between.
C24_HandlesStrictlyIncrease ==
  \A i \in 1..Len(handed_out) : \A j \in 1..Len(handed_out) :
    i < j => handed_out[i] < handed_out[j]

\* Every layer handed out before the last was destroyed before the last was
\* created: the last handle is the only one in use.
C24_Witness ==
  /\ Len(handed_out) = MaxLayers
  /\ DOMAIN layers_ = {handed_out[MaxLayers]}
  /\ layers_[handed_out[MaxLayers]].type = "Invalid"

(***************************************************************************)
(* Properties of the composition build.                                    *)
(***************************************************************************)
LayersOfType(type) == {h \in DOMAIN layers_ : layers_[h].type = type}
Submitted == {out.z_map[i].ref : i \in 1..Len(out.z_map)}
ClientEntries == {i \in 1..Len(out.z_map) : out.z_map[i].ref = ClientLayerRef}

\* C9 as claimed: what CreateComposition submits is in strictly ascending z-order,
\* holds every Device layer, holds the client layer exactly once iff a layer is
\* Client, at the least z-order of the Client layers, and holds nothing else.
C9_CompositionHoldsEveryLayer ==
  out.committed =>
    /\ \A i \in 1..(Len(out.z_map) - 1) : out.z_map[i].z < out.z_map[i + 1].z
    /\ \A h \in LayersOfType("Device") :
         \E i \in 1..Len(out.z_map) :
           out.z_map[i].ref = LayerRef(h) /\ out.z_map[i].z = layers_[h].z
    /\ Cardinality(ClientEntries) = IF LayersOfType("Client") # {} THEN 1 ELSE 0
    /\ \A i \in ClientEntries :
         /\ \E h \in LayersOfType("Client") : out.z_map[i].z = layers_[h].z
         /\ \A h \in LayersOfType("Client") : out.z_map[i].z <= layers_[h].z
    /\ Submitted \subseteq {LayerRef(h) : h \in LayersOfType("Device")}
                              \cup {ClientLayerRef}

\* What CreateComposition offers to z_map at z-order z: the Device layers of that
\* z-order, and the client layer when z is the least z-order of the Client layers.
Contenders(z) ==
  {LayerRef(h) : h \in {g \in LayersOfType("Device") : layers_[g].z = z}}
    \cup (IF (\E h \in LayersOfType("Client") : layers_[h].z = z)
                /\ (\A g \in LayersOfType("Client") : z <= layers_[g].z)
           THEN {ClientLayerRef} ELSE {})

\* C28: when two layers meet at a z-order (a Device layer and the client layer at
\* the least Client z-order, or two Device layers), CreateComposition reports no
\* error for it, and what it submits holds one entry at that z-order, which is one
\* of the layers that met.
C28_EqualZOrderKeepsOneEntry ==
  \A z \in 0..MaxZ :
    Cardinality(Contenders(z)) >= 2 =>
      /\ \A test_only \in BOOLEAN :
           CreateComposition(test_only, 0, 0, 0, 0).ret = "None"
      /\ out.committed =>
           /\ Cardinality({i \in 1..Len(out.z_map) : out.z_map[i].z = z}) = 1
           /\ \A i \in 1..Len(out.z_map) :
                out.z_map[i].z = z => out.z_map[i].ref \in Contenders(z)

\* A composition was submitted and returned success with a Device layer at the
\* z-order of the only Client layer.
C28_Witness ==
  /\ out.committed
  /\ out.ret = "None"
  /\ \E z \in 0..MaxZ :
       /\ Contenders(z) = {LayerRef(0), ClientLayerRef}
       /\ Len(out.z_map) = 1
       /\ out.z_map[1].z = z

\* C10: with no layer validated Device or Client, CreateComposition returns
\* BadLayer, imports no buffer and submits nothing.
C10_NoLayersIsBadLayer ==
  (out.ret # "none" /\ LayersOfType("Device") = {} /\ LayersOfType("Client") = {})
    => (out.ret = "BadLayer" /\ out.imported = 0 /\ ~out.committed)

\* The call was made on a display that has layers, none of them Device or Client.
C10_Witness ==
  /\ out.ret = "BadLayer"
  /\ out.imported = 0
  /\ ~out.committed
  /\ Cardinality(DOMAIN layers_) >= 2
  /\ LayersOfType("Device") = {}
  /\ LayersOfType("Client") = {}

(***************************************************************************)
(* Properties of the staged mode and of PresentDisplay.                    *)
(***************************************************************************)
\* The step is a call of CreateComposition (by PresentDisplay or as a test).
ComposeStep == out'.ret # "none"

\* The step is a call of PresentDisplay.
PresentStep == total_stats_'.total_frames_ # total_stats_.total_frames_

\* C11: after a CreateComposition whose commit is real and succeeds the staged
\* mode is empty; after a test-only CreateComposition, succeeded or failed, the
\* staged mode is what it was before the call.
C11_StagedModeClearedByRealCommit ==
  [][ComposeStep =>
       /\ (~out'.test_only /\ out'.ret = "None") => staged_mode' = NoMode
       /\ out'.test_only => staged_mode' = staged_mode]_vars

\* A real commit failed, then a test commit that carried the staged mode succeeded:
\* the mode is still staged.
C11_Witness ==
  /\ out.test_only
  /\ out.ret = "None"
  /\ out.display_mode # NoMode
  /\ staged_mode = out.display_mode
  /\ carried.failed_first
  /\ carried.n = 0

\* C12: after a SetActiveConfig(id) that succeeded, as long as no real commit has
\* succeeded the mode of id stays staged; the first real commit that succeeds
\* carries the mode of id, every later one carries no mode, and the staged mode
\* is empty from the first one on.
C12_ModeAppliedExactlyOnce ==
  last_set.ret = "None" =>
    IF carried.n = 0
      THEN staged_mode = ModeOf(last_set.config)
      ELSE /\ carried.first = ModeOf(last_set.config)
           /\ ~carried.later
           /\ staged_mode = NoMode

\* Three real commits after SetActiveConfig: the first failed, the next carried
\* the mode, the last carried none.
C12_Witness ==
  /\ last_set.ret = "None"
  /\ carried.failed_first
  /\ carried.n = 2
  /\ carried.first = ModeOf(last_set.config)
  /\ ~out.test_only
  /\ out.ret = "None"
  /\ out.display_mode = NoMode

\* The step is a call of SetActiveConfig.
SetActiveConfigStep == last_set'.calls # last_set.calls

\* C29: a SetActiveConfig whose argument is not an id of the configuration set
\* returns BadConfig and leaves the active id, the staged mode and the client
\* layer's display frame as they were; one whose argument is such an id stages
\* the mode of that id and submits no commit.
C29_UnknownConfigChangesNothing ==
  [][SetActiveConfigStep =>
       /\ ~last_set'.in_set =>
            /\ last_set'.ret = "BadConfig"
            /\ active_config_id' = active_config_id
            /\ staged_mode' = staged_mode
            /\ client_layer_' = client_layer_
       /\ last_set'.in_set =>
            /\ last_set'.ret = "None"
            /\ staged_mode' = ModeOf(last_set'.config)
            /\ ~out'.committed
            /\ carried'.n = 0]_vars

\* With the mode of one configuration staged and its frame set, SetActiveConfig
\* was called with an id that is not in the set.
C29_Witness ==
  /\ last_set.ret = "BadConfig"
  /\ ~last_set.in_set
  /\ last_set.config \notin hwc_configs
  /\ active_config_id \in hwc_configs
  /\ active_config_id # last_set.config
  /\ staged_mode = ModeOf(active_config_id)
  /\ client_layer_.display_frame = FrameOf(staged_mode)

\* C31: whichever layer of z_map fails its import, the first or a later one, and
\* whatever SetLayers, Plan and the commit would have returned, CreateComposition
\* returns NoResources, has not called the commit and leaves staged_mode as it
\* was; and a CreateComposition that returned NoResources has done so.
C31_ImportFailureAbortsComposition ==
  /\ \A test_only \in BOOLEAN : \A import_fails_at \in 1..MaxLayers :
       \A set_layers_ret \in {0, -1} : \A plan_ret \in {0, -1} :
         \A commit_ret \in {0, -1} :
           LET r == CreateComposition(test_only, import_fails_at, set_layers_ret,
                                      plan_ret, commit_ret)
           IN import_fails_at <= Len(r.z_map) =>
                /\ r.ret = "NoResources"
                /\ ~r.committed
                /\ r.staged_mode = staged_mode
  /\ out.ret = "NoResources" =>
       /\ out.imported \in 1..Len(out.z_map)
       /\ ~out.committed
       /\ staged_mode = out.staged_mode
       /\ carried.n = 0 => (last_set.ret = "None" => staged_mode = ModeOf(last_set.config))

\* With a mode staged, the first layer was imported and the import of the second
\* failed.
C31_Witness ==
  /\ out.ret = "NoResources"
  /\ Len(out.z_map) = 2
  /\ out.imported = 2
  /\ ~out.committed
  /\ ~out.test_only
  /\ staged_mode # NoMode

\* C13: SetActiveConfig of an id of the configuration set succeeds, and from then
\* on, over validate, test and present calls, GetActiveConfig returns that id.
C13_ActiveConfigRoundTrip ==
  /\ (last_set.ret # "none" /\ last_set.in_set) => last_set.ret = "None"
  /\ (last_set.ret = "None" /\ last_set.intact)
       => GetActiveConfig = [ret |-> "None", config |-> last_set.config]

\* A configuration other than the preferred one was set and frames were presented
\* and validated since.
C13_Witness ==
  /\ last_set.ret = "None"
  /\ last_set.intact
  /\ carried.n > 0
  /\ out.ret = "None"
  /\ out.test_only
  /\ Cardinality(hwc_configs) = NumConfigs
  /\ GetActiveConfig.config = NumConfigs

\* The composition of the step came out empty.
EmptyComposition == out'.ret = "BadLayer" /\ out'.z_map = <<>>

\* C14: PresentDisplay on a display whose composition fails with BadLayer ("no
\* layers") returns None with the fence set to -1 and does not advance frame_no_.
C14_NoLayersPresentIsSuccess ==
  [][(PresentStep /\ present'.composition = "BadLayer")
       => /\ present'.ret = "None"
          /\ present'.present_fence = "-1"
          /\ frame_no_' = frame_no_]_vars

\* A frame was presented, validation then left no Device or Client layer, and the
\* next present found nothing to compose.
C14_Witness ==
  /\ present.composition = "BadLayer"
  /\ out.z_map = <<>>
  /\ present.ret = "None"
  /\ present.present_fence = "-1"
  /\ present.previous = "None"
  /\ frame_no_ = 1
  /\ total_stats_.total_frames_ = 2

\* C30 as claimed: PresentDisplay returns None with the fence -1 only when z_map is
\* empty, and returns the error of every composition that failed with layers in
\* z_map (at ImportBuffer, SetLayers, Plan or the commit).
C30_OnlyEmptyCompositionIsBenign ==
  [][PresentStep =>
       /\ (present'.ret = "None" /\ present'.present_fence = "-1")
            => out'.z_map = <<>>
       /\ (out'.ret # "None" /\ out'.z_map # <<>>)
            => present'.ret \notin {"None", "none"}]_vars

\* C15 as claimed: total_frames_ grows by one per PresentDisplay, and
\* failed_kms_present_ grows by one exactly on the calls whose composition fails
\* for another reason than being empty.
C15_EmptyPresentNotCounted ==
  [][PresentStep =>
       /\ total_stats_'.total_frames_ = total_stats_.total_frames_ + 1
       /\ total_stats_'.failed_kms_present_ =
            IF out'.ret # "None" /\ ~EmptyComposition
              THEN total_stats_.failed_kms_present_ + 1
              ELSE total_stats_.failed_kms_present_]_vars

\* C15 as amended: total_frames_ grows by one per PresentDisplay, and
\* failed_kms_present_ grows by one exactly on the calls whose composition does
\* not return None, the empty composition included.
C15_EveryFailedCompositionCounted ==
  [][PresentStep =>
       /\ total_stats_'.total_frames_ = total_stats_.total_frames_ + 1
       /\ total_stats_'.failed_kms_present_ =
            IF out'.ret # "None"
              THEN total_stats_.failed_kms_present_ + 1
              ELSE total_stats_.failed_kms_present_]_vars

\* An empty composition after a failed import: both presents are counted as failed
\* and the second one returned success.
C15_Witness ==
  /\ total_stats_.total_frames_ = 2
  /\ total_stats_.failed_kms_present_ = 2
  /\ present.previous = "NoResources"
  /\ present.composition = "BadLayer"
  /\ out.z_map = <<>>
  /\ present.ret = "None"

\* C16: a PresentDisplay that fails on the import of a buffer or on the commit
\* returns the error and leaves the layers, layer_idx_, the active configuration
\* and the staged mode as they were; and a PresentDisplay whose imports, SetLayers,
\* Plan and commit succeed returns None whatever came before.
C16_FailedPresentLeavesDisplayUsable ==
  [][PresentStep =>
       /\ present'.composition \in {"NoResources", "BadParameter"}
            => /\ present'.ret = present'.composition
               /\ layers_' = layers_
               /\ layer_idx_' = layer_idx_
               /\ active_config_id' = active_config_id
               /\ staged_mode' = staged_mode
       /\ present'.inputs_ok => present'.ret = "None"]_vars

\* The present before failed on the commit with a mode staged; this one carried
\* that mode and presented the frame.
C16_Witness ==
  /\ present.previous = "BadParameter"
  /\ present.composition = "None"
  /\ present.ret = "None"
  /\ present.present_fence = "out_fence"
  /\ out.display_mode # NoMode
  /\ staged_mode = NoMode
  /\ frame_no_ = 1

\* C39: in every state PresentDisplay calls reach, total_frames_ is frame_no_
\* plus failed_kms_present_: each call is counted either as a presented frame,
\* when it returned a fence, or as a failed present, never as both or neither,
\* and failed_kms_present_ never exceeds total_frames_.
C39_EveryPresentCountedOnce ==
  /\ total_stats_.total_frames_ = frame_no_ + total_stats_.failed_kms_present_
  /\ total_stats_.failed_kms_present_ <= total_stats_.total_frames_
  /\ present.ret # "none"
       => (present.present_fence = "out_fence") # (present.composition # "None")

\* Two presents, one that returned a fence and then an empty composition, which
\* returned None without a fence and is counted as failed.
C39_Witness ==
  /\ total_stats_.total_frames_ = 2
  /\ frame_no_ = 1
  /\ total_stats_.failed_kms_present_ = 1
  /\ present.previous = "None"
  /\ present.composition = "BadLayer"
  /\ present.ret = "None"
  /\ present.present_fence = "-1"

(***************************************************************************)
(* Properties of the flattening countdown.                                 *)
(***************************************************************************)
\* C17: armed at a countdown N >= 1 with a refresh handler registered, the state
\* is N less the ticks, with no refresh request sent and the tick source armed,
\* until the N-th tick; from the N-th tick on the state is ClientRefreshRequested,
\* exactly one refresh request has been sent and the tick source is disarmed.
C17_RefreshRequestedOnceAtNthTick ==
  (countdown.armed_at >= 1 /\ countdown.handler) =>
    IF countdown.ticks < countdown.armed_at
      THEN /\ flattenning_state_ = countdown.armed_at - countdown.ticks
           /\ countdown.refreshes = 0
           /\ flattening_vsync_enabled
      ELSE /\ flattenning_state_ = ClientRefreshRequested
           /\ countdown.refreshes = 1
           /\ ~flattening_vsync_enabled

\* Armed at the greatest countdown, two ticks past the one that sent the request.
C17_Witness ==
  /\ countdown.handler
  /\ countdown.armed_at = MaxCountdown
  /\ countdown.ticks = MaxCountdown + 2
  /\ countdown.refreshes = 1
  /\ flattenning_state_ = ClientRefreshRequested
  /\ ~flattening_vsync_enabled

\* C37: a thread is in RegisterCallback, in the hotplug handler's body, in the
\* loop of UpdateAllDiaplaysHotplugState or in a re-entrant call exactly when it
\* holds the master lock: SendHotplugEventToClient is entered with the lock held
\* by the caller, the operation ends with the lock held as it began, and every
\* unlock is made by the holder.
C37_UnlockLockBalanced ==
  /\ \A t \in Threads :
       master_lock = t <=> hpc[t] \in {"hooked", "update", "reentered"}
  /\ master_lock \in Threads \cup {NoThread}

\* A registration has delivered the callback for every display and is about to
\* return, with the master lock held.
C37_Witness ==
  \E t \in ClientThreads :
    /\ hpc[t] = "update"
    /\ displays_ = 1..MaxDisplays
    /\ iter[t] \notin displays_
    /\ delivered[t] = MaxDisplays
    /\ master_lock = t

(***************************************************************************)
(* Properties of the power mode.                                           *)
(***************************************************************************)
\* The step is a call of SetPowerMode.
PowerStep == power'.calls = power.calls + 1

\* The commits and the calls of ActivateDisplayUsingDPMS the step has made.
NewCommits == SubSeq(power'.commits, Len(power.commits) + 1, Len(power'.commits))
NewDpms == power'.dpms - power.dpms

\* C33: SetPowerMode(Off) makes one commit, with active = false and no
\* composition; Doze and DozeSuspend return Unsupported and commit nothing; On
\* makes no commit and calls ActivateDisplayUsingDPMS; every other value returns
\* BadParameter and commits nothing.
C33_PowerModeCommits ==
  [][PowerStep =>
       LET mode == power'.mode_in
       IN /\ mode = Off =>
               /\ NewCommits = <<[active |-> "false", composition |-> "none",
                                  display_mode |-> NoMode, test_only |-> FALSE]>>
               /\ NewDpms = 0
          /\ mode \in {Doze, DozeSuspend} =>
               /\ power'.ret = "Unsupported"
               /\ NewCommits = <<>>
               /\ NewDpms = 0
          /\ mode = On =>
               /\ NewCommits = <<>>
               /\ NewDpms = 1
          /\ mode \notin {Off, Doze, On, DozeSuspend} =>
               /\ power'.ret = "BadParameter"
               /\ NewCommits = <<>>
               /\ NewDpms = 0]_vars

\* The display was turned off, then on, then off with a commit that failed: two
\* commits in all, one call of ActivateDisplayUsingDPMS.
C33_Witness ==
  /\ power.calls = 3
  /\ Len(power.commits) = 2
  /\ power.dpms = 1
  /\ power.mode_in = Off
  /\ power.ret = "BadParameter"

\* The step is a flattening tick.
TickStep == countdown'.ticks = countdown.ticks + 1

\* C32: a tick that finds the state at Disabled, NotRequired, Flattened or
\* ClientRefreshRequested leaves the state, sends no refresh request and leaves
\* the tick source as it is; a tick that finds a countdown takes one off it, which
\* leaves it at ClientRefreshRequested or above.
C32_TickOnlyCountsDown ==
  [][TickStep =>
       IF flattenning_state_ \in {Disabled, NotRequired, Flattened, ClientRefreshRequested}
         THEN /\ flattenning_state_' = flattenning_state_
              /\ countdown'.refreshes = countdown.refreshes
              /\ flattening_vsync_enabled' = flattening_vsync_enabled
         ELSE /\ flattenning_state_ > ClientRefreshRequested
              /\ flattenning_state_' = flattenning_state_ - 1
              /\ flattenning_state_' >= ClientRefreshRequested]_vars

\* With a refresh handler registered, every tick the bound allows has run in the
\* state Disabled.
C32_Witness ==
  /\ flattenning_state_ = Disabled
  /\ countdown.ticks = MaxTicks
  /\ countdown.refreshes = 0
  /\ RefreshRegistered

\* C38 as stated: once a countdown has come down to ClientRefreshRequested the
\* tick source is disarmed, with or without a refresh handler registered at that
\* tick.
C38_DisarmedAtClientRefreshRequested ==
  (/\ countdown.armed_at >= 1
   /\ countdown.ticks >= countdown.armed_at
   /\ flattenning_state_ = ClientRefreshRequested)
    => ~flattening_vsync_enabled

(***************************************************************************)
(* Properties of the display numbers.                                      *)
(***************************************************************************)
Primary == all_connectors[connectors_[1]]

\* C18: with the default preference list, once the resource manager is
\* initialized over connectors of which one is a connected internal connector,
\* display number 1 is a connected internal connector.
C18_DefaultPrimaryIsInternal ==
  (/\ display_order = DefaultDisplayOrder
   /\ rm.pc # "constructed"
   /\ \E i \in 1..Len(all_connectors) :
        connected(all_connectors[i]) /\ internal(all_connectors[i]))
    => /\ rm.pc = "initialized"
       /\ connectors_ # <<>>
       /\ connected(Primary) /\ internal(Primary)

\* Two connected external connectors were discovered before the connected internal
\* one, which is display 1.
C18_Witness ==
  /\ display_order = DefaultDisplayOrder
  /\ rm.pc = "initialized"
  /\ Len(all_connectors) = MaxConnectors
  /\ \A i \in 1..(MaxConnectors - 1) :
       connected(all_connectors[i]) /\ external(all_connectors[i])
  /\ connected(all_connectors[MaxConnectors]) /\ internal(all_connectors[MaxConnectors])
  /\ connectors_[1] = MaxConnectors

\* The positions of display_order before the last whose name a connected
\* connector has.
ListedConnected ==
  {k \in 1..(Len(display_order) - 1) :
     \E i \in 1..Len(all_connectors) :
       connected(all_connectors[i]) /\ name(all_connectors[i]) = display_order[k]}

\* The internal and external connectors other than display 1.
OtherDisplays ==
  {i \in 1..Len(all_connectors) :
     /\ i # connectors_[1]
     /\ internal(all_connectors[i]) \/ external(all_connectors[i])}

\* C19: with a preference list of names followed by the catch-all marker, of which
\* some name is that of a connected connector, display number 1 is a connected
\* connector with the first such name of the list, and the other internal and
\* external connectors have the display numbers from 2 on, one each.
C19_FirstListedIsPrimary ==
  (/\ display_order[Len(display_order)] = CatchAll
   /\ ListedConnected # {}
   /\ rm.pc # "constructed")
    => /\ rm.pc = "initialized"
       /\ connectors_ # <<>>
       /\ connected(Primary)
       /\ \E k \in ListedConnected :
            /\ \A l \in ListedConnected : k <= l
            /\ name(Primary) = display_order[k]
       /\ {connectors_[d] : d \in 2..Len(connectors_)} = OtherDisplays
       /\ Len(connectors_) = 1 + Cardinality(OtherDisplays)

DistinctNames ==
  \A k \in 1..Len(display_order) : \A l \in 1..Len(display_order) :
    display_order[k] = display_order[l] => k = l

Listed(conn) == \E k \in 1..Len(display_order) : name(conn) = display_order[k]

AnyListedConnected ==
  \E i \in 1..Len(all_connectors) :
    connected(all_connectors[i]) /\ Listed(all_connectors[i])

Qualifies(idx) ==
  /\ idx + 1 \in DOMAIN device_nodes
  /\ device_nodes[idx + 1].count_crtcs > 0
  /\ device_nodes[idx + 1].count_connectors > 0
  /\ device_nodes[idx + 1].count_encoders > 0

\* C36 as stated: with either form of the device path, every node added has
\* crtcs, connectors and encoders.
C36_OnlyQualifiedNodesAdded ==
  \A d \in 1..Len(drms_) : Qualifies(drms_[d])

\* The indices of the nodes that qualify, in ascending order.
QualifiedNodes ==
  SelectSeq([i \in 1..Len(device_nodes) |-> i - 1], LAMBDA idx : Qualifies(idx))

\* C36, amended: with the wildcard every node added qualifies, and the loop adds
\* the qualifying nodes in index order, passing over the others, until a node
\* does not exist or DrmDevice::Init has failed for the node just added; with an
\* explicit path the node named is added, whether it qualifies or not.
C36_WildcardAddsOnlyQualifiedNodes ==
  /\ device_path = Wildcard =>
       /\ \A d \in 1..Len(drms_) : Qualifies(drms_[d])
       /\ Len(drms_) <= Len(QualifiedNodes)
       /\ drms_ = SubSeq(QualifiedNodes, 1, Len(drms_))
       /\ \A d \in 1..(Len(drms_) - 1) : DrmDeviceInit(drms_[d]) = "0"
       /\ (scan.pc = "done" /\ Len(drms_) < Len(QualifiedNodes))
            => (drms_ # <<>> /\ DrmDeviceInit(drms_[Len(drms_)]) # "0")
  /\ (device_path # Wildcard /\ scan.pc = "done") => drms_ = <<device_path>>

\* The wildcard loop has passed over card0, which has no encoder, and added
\* card1.
C36_Witness ==
  /\ device_path = Wildcard
  /\ scan.pc = "done"
  /\ Len(device_nodes) = 2
  /\ device_nodes[1].count_crtcs > 0
  /\ device_nodes[1].count_connectors > 0
  /\ device_nodes[1].count_encoders = 0
  /\ drms_ = <<1>>

\* The positions of display_order whose name a connected connector has and no
\* earlier position has.
FirstMatches ==
  {k \in 1..Len(display_order) :
     /\ \E i \in 1..Len(all_connectors) :
          connected(all_connectors[i]) /\ name(all_connectors[i]) = display_order[k]
     /\ \A l \in 1..(k - 1) : display_order[l] # display_order[k]}

\* C35 as stated, for every preference list, one that repeats a name included:
\* the candidates MakePrimaryDisplayCandidates returns hold no connector twice,
\* begin with as many listed connected connectors as there are listed names that
\* match one, and these follow the list's order.
C35_ListedCandidatesLeadInListOrder ==
  rm.pc = "initialized" =>
    LET candidates == rm.primary_candidates
        front == Cardinality(FirstMatches)
    IN /\ \A i \in 1..Len(candidates) : \A j \in 1..Len(candidates) :
            candidates[i] = candidates[j] => i = j
       /\ Len(candidates) >= front
       /\ \A j \in 1..front :
            /\ connected(all_connectors[candidates[j]])
            /\ \E k \in FirstMatches :
                 /\ name(all_connectors[candidates[j]]) = display_order[k]
                 /\ Cardinality({l \in FirstMatches : l < k}) = j - 1

\* The connectors in discovery order.
Discovered == [i \in 1..Len(all_connectors) |-> i]

\* The displays after display 1, in the order of their numbers.
LaterDisplays == [d \in 1..(Len(connectors_) - 1) |-> connectors_[d + 1]]

\* C34 as stated: the display numbers from 2 on go to the connected internal and
\* external connectors other than display 1, in discovery order; a connector that
\* is not connected gets no display number.
C34_OnlyConnectedNumbered ==
  (rm.pc = "initialized" /\ connectors_ # <<>>)
    => /\ LaterDisplays
            = SelectSeq(Discovered,
                        LAMBDA i : /\ i # connectors_[1]
                                   /\ connected(all_connectors[i])
                                   /\ \/ internal(all_connectors[i])
                                      \/ external(all_connectors[i]))
       /\ \A d \in 1..Len(connectors_) : connected(all_connectors[connectors_[d]])

\* C34, amended: the display numbers from 2 on go to the internal and external
\* connectors other than display 1, in discovery order, connected or not and
\* listed or not.
C34_OthersNumberedInDiscoveryOrder ==
  (rm.pc = "initialized" /\ connectors_ # <<>>)
    => LaterDisplays
         = SelectSeq(Discovered,
                     LAMBDA i : /\ i # connectors_[1]
                                /\ \/ internal(all_connectors[i])
                                   \/ external(all_connectors[i]))

\* The last connector discovered is listed and display 1; the two before it are
\* not listed, one of them not connected, and are displays 2 and 3.
C34_Witness ==
  /\ rm.pc = "initialized"
  /\ display_order[Len(display_order)] # CatchAll
  /\ Len(all_connectors) = 3
  /\ connectors_ = <<3, 1, 2>>
  /\ ~connected(all_connectors[1])
  /\ connected(all_connectors[2])
  /\ ~Listed(all_connectors[1])
  /\ ~Listed(all_connectors[2])

\* C40 as stated: every connector with a display number, display 1 included, is
\* internal or external.
C40_EveryDisplayInternalOrExternal ==
  rm.pc = "initialized"
    => \A d \in DOMAIN connectors_ :
         \/ internal(all_connectors[connectors_[d]])
         \/ external(all_connectors[connectors_[d]])

\* C40 as amended: no writeback connector is among the connectors the displays
\* are taken from, so none gets a display number; the displays from 2 on, and
\* display 1 when there was no primary candidate, are internal or external;
\* display 1 taken from the primary candidates is connected and may be of a type
\* that is neither internal nor external.
C40_OnlyCandidatePrimaryUnclassified ==
  rm.pc = "initialized"
    => /\ all_connectors \in ConnectorLists
       /\ \A i \in DOMAIN writeback_connectors_ : writeback(writeback_connectors_[i])
       /\ \A d \in DOMAIN connectors_ :
            LET conn == all_connectors[connectors_[d]]
            IN /\ ~writeback(conn)
               /\ (d >= 2 \/ rm.primary_candidates = <<>>)
                    => (internal(conn) \/ external(conn))
               /\ (d = 1 /\ rm.primary_candidates # <<>>)
                    => (connected(conn) /\ connectors_[1] = rm.primary_candidates[1])

\* A connected writeback connector is kept apart and has no display number; the
\* one connected connector left is of an unclassified type, is named in the list
\* and is display 1; the disconnected internal connector is display 2.
C40_Witness ==
  /\ rm.pc = "initialized"
  /\ writeback_connectors_ = <<[type |-> "Writeback", state |-> "connected"]>>
  /\ all_connectors = <<[type |-> "DSI", state |-> "disconnected"],
                        [type |-> "Composite", state |-> "connected"]>>
  /\ display_order = <<"Composite">>
  /\ connectors_ = <<2, 1>>

C22_DisplayNumbersConsecutive ==
  rm.pc = "initialized"
    => /\ DOMAIN connectors_ = 1..Cardinality(DOMAIN connectors_)
       /\ \A d \in DOMAIN connectors_ : \A e \in DOMAIN connectors_ :
            connectors_[d] = connectors_[e] => d = e
       /\ init_ret = "None" => displays_ = DOMAIN connectors_

\* The last connector discovered is the primary; the discovery-order pass has
\* numbered the others and passed over it.
C22_Witness ==
  /\ rm.pc = "initialized"
  /\ init_ret = "None"
  /\ Len(all_connectors) = MaxConnectors
  /\ connectors_[1] = MaxConnectors
  /\ \A i \in 1..(MaxConnectors - 1) : connectors_[i + 1] = i
  /\ displays_ = 1..MaxConnectors

====
